---- MODULE Spec2Model ----
(***************************************************************************)
(* Verification model of the OSPF topology visualiser: the LSA text parser *)
(* (lib/ospf-parser), the topology differ and status annotator             *)
(* (lib/topology-diff), the graph builder (lib/layout-engine) and the page *)
(* handlers that publish their results (app/page.tsx).                     *)
(*                                                                         *)
(* Text is a sequence of lines.  A line is a record [k, p, v]: k is the    *)
(* line pattern it is an instance of, p the textual qualifier the regular  *)
(* expressions of the parser look at, v its numeric payload.  Router and   *)
(* network ids are dotted strings in the source; here they are positive    *)
(* integers whose order stands for the string order used by sort(), and    *)
(* NoId stands for the empty string.                                       *)
(***************************************************************************)
EXTENDS Integers, Sequences, FiniteSets, TLC

NoId == 0

Line(k, p, v) == [k |-> k, p |-> p, v |-> v]

\* Header prefixes that occur before "Link States (Area N)" in router output.
HeaderPrefixes ==
  {"Router", "Net", "Summary Net", "Summary ASB", "Type-7 AS External", "Opaque Area"}

(***************************************************************************)
(* Regular expressions of the parser, as predicates on lines.              *)
(***************************************************************************)

\* /(?:Router|Net|Summary.*)\s+Link States\s+\(Area\s+\d+\)/i
\* "Router", "Net" or "Summary<anything>" has to stand right before
\* " Link States": true of Router, Net, Summary Net, Summary ASB; false of
\* "Type-7 AS External" and "Opaque Area".
SplitHeaderPrefixes == {"Router", "Net", "Summary Net", "Summary ASB"}

IsSplitAreaHeader(line) == line.k = "hdr" /\ line.p \in SplitHeaderPrefixes

\* /Link States\s+\(Area\s+(\d+)\)/i : any prefix
IsAreaHeader(line) == line.k = "hdr"

\* /^\s*LS age:\s*\d+/i
IsLSAge(line) == line.k = "age"

\* /Link connected to:/i
IsLinkConnected(line) == line.k = "linkconn"

\* The two isBoundary callbacks handed to splitIntoBlocks.
isBoundary(mode, line) ==
  IF mode = "lsa" THEN IsLSAge(line) ELSE IsLinkConnected(line)

(***************************************************************************)
(* splitIntoBlocks                                                         *)
(***************************************************************************)
SplitLine(st, line, mode) ==
  LET flushed == IF Len(st.current) > 0 THEN Append(st.blocks, st.current)
                 ELSE st.blocks
  IN  IF IsSplitAreaHeader(line)
        THEN [blocks |-> Append(flushed, <<line>>), current |-> <<>>]
      ELSE IF isBoundary(mode, line)
        THEN [blocks |-> flushed, current |-> <<line>>]
      ELSE [blocks |-> st.blocks, current |-> Append(st.current, line)]

RECURSIVE SplitFrom(_, _, _, _)
SplitFrom(lines, i, st, mode) ==
  IF i > Len(lines) THEN st
  ELSE SplitFrom(lines, i + 1, SplitLine(st, lines[i], mode), mode)

splitIntoBlocks(lines, mode) ==
  LET st == SplitFrom(lines, 1, [blocks |-> <<>>, current |-> <<>>], mode)
  IN  IF Len(st.current) > 0 THEN Append(st.blocks, st.current) ELSE st.blocks

(***************************************************************************)
(* updateArea: the last area header of the block sets the area.            *)
(***************************************************************************)
RECURSIVE updateArea(_, _, _)
updateArea(block, i, area) ==
  IF i > Len(block) THEN area
  ELSE updateArea(block, i + 1,
                  IF IsAreaHeader(block[i]) THEN block[i].v ELSE area)

\* The value captured by the last line of the block that matches, or dflt.
RECURSIVE LastMatch(_, _, _, _, _)
LastMatch(block, i, k, p, dflt) ==
  IF i > Len(block) THEN dflt
  ELSE LastMatch(block, i + 1, k, p,
                 IF block[i].k = k /\ block[i].p = p THEN block[i].v ELSE dflt)

HasLine(block, k, p) == \E i \in 1..Len(block) : block[i].k = k /\ block[i].p = p
HasKind(block, k) == \E i \in 1..Len(block) : block[i].k = k

(***************************************************************************)
(* parseRouterLSAs                                                         *)
(***************************************************************************)
\* "Link connected to: <desc>" classification.
LinkTypeOf(desc) ==
  IF desc = "another Router (point-to-point)" THEN "point-to-point"
  ELSE IF desc = "a Transit Network" THEN "transit"
  ELSE "stub"

RECURSIVE ParseLinkBlocks(_, _, _)
ParseLinkBlocks(linkBlocks, i, acc) ==
  IF i > Len(linkBlocks) THEN acc
  ELSE
    LET lb == linkBlocks[i]
        linkId == LastMatch(lb, 1, "linkid", "dotted", NoId)
        raw == [type     |-> LinkTypeOf(lb[1].p),
                linkId   |-> linkId,
                linkData |-> LastMatch(lb, 1, "linkdata", "dotted", NoId),
                metric   |-> LastMatch(lb, 1, "metric", "", 0)]
    IN  ParseLinkBlocks(linkBlocks, i + 1,
          IF Len(lb) = 0 \/ ~IsLinkConnected(lb[1]) \/ linkId = NoId
          THEN acc ELSE Append(acc, raw))

RawRouterLSA(block, area) ==
  [routerId |-> LastMatch(block, 1, "lsid", "dotted", NoId),
   area     |-> area,
   isABR    |-> HasKind(block, "abr"),
   isASBR   |-> HasKind(block, "asbr"),
   links    |-> ParseLinkBlocks(splitIntoBlocks(block, "link"), 1, <<>>)]

\* Lines 181 and 243 without the test of line 242.
PushRouterLSA_NoIdTest(block, lsa) == HasLine(block, "lstype", "Router Links")

\* The block is a Router LSA (line 181) and its id was found (line 242).
PushRouterLSA(block, lsa) ==
  HasLine(block, "lstype", "Router Links") /\ lsa.routerId # NoId

RECURSIVE RouterLSAsFrom(_, _, _, _)
RouterLSAsFrom(blocks, i, currentArea, result) ==
  IF i > Len(blocks) THEN result
  ELSE
    LET block == blocks[i]
        area  == updateArea(block, 1, currentArea)
        lsa   == RawRouterLSA(block, area)
    IN  RouterLSAsFrom(blocks, i + 1, area,
          IF PushRouterLSA(block, lsa) THEN Append(result, lsa) ELSE result)

parseRouterLSAs(lines) ==
  RouterLSAsFrom(splitIntoBlocks(lines, "lsa"), 1, 0, <<>>)

(***************************************************************************)
(* parseNetworkLSAs                                                        *)
(***************************************************************************)
RECURSIVE AttachedRouters(_, _, _)
AttachedRouters(block, i, acc) ==
  IF i > Len(block) THEN acc
  ELSE AttachedRouters(block, i + 1,
         IF block[i].k = "attached" /\ block[i].p = "dotted"
         THEN Append(acc, block[i].v) ELSE acc)

RawNetworkLSA(block, area) ==
  [linkStateId       |-> LastMatch(block, 1, "lsid", "dotted", NoId),
   advertisingRouter |-> LastMatch(block, 1, "adv", "dotted", NoId),
   area              |-> area,
   attachedRouters   |-> AttachedRouters(block, 1, <<>>)]

RECURSIVE NetworkLSAsFrom(_, _, _, _)
NetworkLSAsFrom(blocks, i, currentArea, result) ==
  IF i > Len(blocks) THEN result
  ELSE
    LET block == blocks[i]
        area  == updateArea(block, 1, currentArea)
        nlsa  == RawNetworkLSA(block, area)
    IN  NetworkLSAsFrom(blocks, i + 1, area,
          IF HasLine(block, "lstype", "Network Links") /\ nlsa.linkStateId # NoId
          THEN Append(result, nlsa) ELSE result)

parseNetworkLSAs(lines) ==
  NetworkLSAsFrom(splitIntoBlocks(lines, "lsa"), 1, 0, <<>>)

(***************************************************************************)
(* parseOSPFData.  A JS Map keeps insertion order, and set() on a present  *)
(* key keeps the key's position: routerMap and networkMap are sequences of *)
(* records with distinct ids.                                              *)
(***************************************************************************)
IndexOf(seq, id) ==
  IF \E i \in 1..Len(seq) : seq[i].id = id
  THEN CHOOSE i \in 1..Len(seq) : seq[i].id = id
  ELSE 0

MapHas(seq, id) == IndexOf(seq, id) # 0

Includes(seq, x) == \E i \in 1..Len(seq) : seq[i] = x

PushUnique(seq, x) == IF Includes(seq, x) THEN seq ELSE Append(seq, x)

\* The pair left in the order given, as without the sort().
SortedPair_Unsorted(a, b) == <<a, b>>

\* [a, b].sort(): the two ids in string order.
SortedPair(a, b) == IF a <= b THEN <<a, b>> ELSE <<b, a>>

\* Ids of the networks a router lists: a transit network, or the synthesized
\* `stub-${linkId}-${linkData}`.
NetRef(nid) == <<"net", nid, NoId>>
StubRef(linkId, linkData) == <<"stub", linkId, linkData>>

InitialRole(lsa) ==
  IF lsa.isABR /\ lsa.isASBR THEN "asbr"
  ELSE IF lsa.isABR THEN "abr"
  ELSE IF lsa.isASBR THEN "asbr"
  ELSE "internal"

\* Lines 47-49 without the test `existing.role === "internal"`.
MergedRole_AlwaysABR(existingRole, lsa) ==
  LET r1 == IF lsa.isABR THEN "abr" ELSE existingRole
  IN  IF lsa.isASBR THEN "asbr" ELSE r1

\* Lines 47-49: the role of a router seen before.
MergedRole(existingRole, lsa) ==
  LET r1 == IF lsa.isABR /\ existingRole = "internal" THEN "abr" ELSE existingRole
  IN  IF lsa.isASBR THEN "asbr" ELSE r1

NewRouter(lsa) ==
  [id |-> lsa.routerId, routerId |-> lsa.routerId, role |-> InitialRole(lsa),
   area |-> lsa.area, lsaTypes |-> <<"Router LSA (Type 1)">>,
   neighbors |-> <<>>, networks |-> <<>>]

\* Lines 28-50.
UpsertRouter(routerMap, lsa) ==
  LET i == IndexOf(routerMap, lsa.routerId)
  IN  IF i = 0 THEN Append(routerMap, NewRouter(lsa))
      ELSE [routerMap EXCEPT ![i].role = MergedRole(@, lsa)]

P2PLink(rid, link, area) ==
  [id |-> <<"p2p", rid, link.linkId>>, source |-> rid, target |-> link.linkId,
   cost |-> link.metric, linkType |-> "point-to-point", area |-> area]

\* Lines 54-82, one link of the LSA of router rid.
RouterLink(st, rid, link, area) ==
  LET i == IndexOf(st.routerMap, rid)
      key == SortedPair(rid, link.linkId)
  IN  IF link.type = "point-to-point" THEN
        [st EXCEPT
           !.routerMap = [@ EXCEPT ![i].neighbors = PushUnique(@, link.linkId)],
           !.processedP2P = @ \cup {key},
           !.links = IF key \in st.processedP2P THEN @
                     ELSE Append(@, P2PLink(rid, link, area))]
      ELSE IF link.type = "stub" THEN
        [st EXCEPT !.routerMap =
           [@ EXCEPT ![i].networks = PushUnique(@, StubRef(link.linkId, link.linkData))]]
      ELSE
        [st EXCEPT !.routerMap =
           [@ EXCEPT ![i].networks = PushUnique(@, NetRef(link.linkId))]]

RECURSIVE RouterLinks(_, _, _, _, _)
RouterLinks(st, rid, links, j, area) ==
  IF j > Len(links) THEN st
  ELSE RouterLinks(RouterLink(st, rid, links[j], area), rid, links, j + 1, area)

\* Lines 25-83, one iteration of the loop over routerLSAs.
RouterLSAStep(st, lsa) ==
  LET st1 == [st EXCEPT !.areas = @ \cup {lsa.area},
                        !.routerMap = UpsertRouter(@, lsa)]
  IN  RouterLinks(st1, lsa.routerId, lsa.links, 1, lsa.area)

NewNetwork(nlsa) ==
  [id |-> nlsa.linkStateId, networkAddress |-> nlsa.linkStateId,
   attachedRouters |-> nlsa.attachedRouters,
   designatedRouter |-> nlsa.advertisingRouter, area |-> nlsa.area]

UpsertNetwork(networkMap, nlsa) ==
  LET i == IndexOf(networkMap, nlsa.linkStateId)
  IN  IF i = 0 THEN Append(networkMap, NewNetwork(nlsa))
      ELSE [networkMap EXCEPT ![i] = NewNetwork(nlsa)]

TransitLink(nid, ar, area) ==
  [id |-> <<"transit", nid, ar>>, source |-> nid, target |-> ar,
   cost |-> 0, linkType |-> "transit", area |-> area]

PlaceholderRouter(ar, nlsa) ==
  [id |-> ar, routerId |-> ar, role |-> "internal", area |-> nlsa.area,
   lsaTypes |-> <<>>, neighbors |-> <<>>,
   networks |-> <<NetRef(nlsa.linkStateId)>>]

\* Lines 99-125, one attached router of a Network LSA.
AttachedRouter(st, nlsa, ar) ==
  LET rm1 == IF MapHas(st.routerMap, ar) THEN st.routerMap
             ELSE Append(st.routerMap, PlaceholderRouter(ar, nlsa))
      i   == IndexOf(rm1, ar)
      rm2 == IF ar = nlsa.advertisingRouter
             THEN [rm1 EXCEPT ![i].lsaTypes = PushUnique(@, "Network LSA (Type 2)")]
             ELSE rm1
  IN  [st EXCEPT !.links = Append(@, TransitLink(nlsa.linkStateId, ar, nlsa.area)),
                 !.routerMap = rm2]

RECURSIVE AttachedRoutersLoop(_, _, _)
AttachedRoutersLoop(st, nlsa, j) ==
  IF j > Len(nlsa.attachedRouters) THEN st
  ELSE AttachedRoutersLoop(AttachedRouter(st, nlsa, nlsa.attachedRouters[j]), nlsa, j + 1)

\* Lines 86-126, one iteration of the loop over networkLSAs.
NetworkLSAStep(st, nlsa) ==
  LET st1 == [st EXCEPT !.areas = @ \cup {nlsa.area},
                        !.networkMap = UpsertNetwork(@, nlsa)]
  IN  AttachedRoutersLoop(st1, nlsa, 1)

\* dedup: the first link of every (sorted endpoints, kind) key.
DedupKey(l) == <<SortedPair(l.source, l.target), l.linkType>>

RECURSIVE DedupFrom(_, _, _, _)
DedupFrom(links, i, seen, out) ==
  IF i > Len(links) THEN out
  ELSE IF DedupKey(links[i]) \in seen THEN DedupFrom(links, i + 1, seen, out)
  ELSE DedupFrom(links, i + 1, seen \cup {DedupKey(links[i])}, Append(out, links[i]))

\* The links returned as collected.
dedup_Keep(links) == links

dedup(links) == DedupFrom(links, 1, {}, <<>>)

\* Array.from(areas).sort()
RECURSIVE SortedSeq(_)
SortedSeq(S) ==
  IF S = {} THEN <<>>
  ELSE LET m == CHOOSE x \in S : \A y \in S : x <= y
       IN  <<m>> \o SortedSeq(S \ {m})

EmptyParse ==
  [routerMap |-> <<>>, networkMap |-> <<>>, links |-> <<>>,
   areas |-> {}, processedP2P |-> {}]

\* Lines 128-133.
ParseResult(st) ==
  [routers |-> st.routerMap, networks |-> st.networkMap,
   links |-> dedup(st.links), areas |-> SortedSeq(st.areas)]

RECURSIVE RouterLSAsLoop(_, _, _)
RouterLSAsLoop(st, lsas, i) ==
  IF i > Len(lsas) THEN st
  ELSE RouterLSAsLoop(RouterLSAStep(st, lsas[i]), lsas, i + 1)

RECURSIVE NetworkLSAsLoop(_, _, _)
NetworkLSAsLoop(st, nlsas, i) ==
  IF i > Len(nlsas) THEN st
  ELSE NetworkLSAsLoop(NetworkLSAStep(st, nlsas[i]), nlsas, i + 1)

parseOSPFData(input) ==
  ParseResult(
    NetworkLSAsLoop(
      RouterLSAsLoop(EmptyParse, parseRouterLSAs(input), 1),
      parseNetworkLSAs(input), 1))

(***************************************************************************)
(* diffTopologies.  A description is the sequence of the words of the      *)
(* string: W is a literal word, N a router id, area or cost printed in it. *)
(* undefined is NoId for a routerId, NoLink for a linkId, Undefined for an *)
(* old/new value and for oldCost.                                          *)
(***************************************************************************)
W(s) == [w |-> s, n |-> 0]
N(n) == [w |-> "#", n |-> n]

NoLink == <<"", NoId, NoId>>
Undefined == -1

\* linkKey: [src, tgt].sort().join("<->")
linkKey_Directed(src, tgt) == <<src, tgt>>

linkKey(src, tgt) == SortedPair(src, tgt)

RouterIdSet(topo) == {topo.routers[i].routerId : i \in 1..Len(topo.routers)}

\* new Map(entries): one entry per key, at the position of the key's first
\* set(), holding the value of its last set().
MapSet(m, key, val) ==
  IF \E i \in 1..Len(m) : m[i].key = key
  THEN [i \in 1..Len(m) |-> IF m[i].key = key THEN [key |-> key, val |-> val] ELSE m[i]]
  ELSE Append(m, [key |-> key, val |-> val])

RECURSIVE LinkMapFrom(_, _, _)
LinkMapFrom(links, i, m) ==
  IF i > Len(links) THEN m
  ELSE LinkMapFrom(links, i + 1,
                   MapSet(m, linkKey(links[i].source, links[i].target), links[i]))

LinkMap(links) == LinkMapFrom(links, 1, <<>>)

MapHasKey(m, key) == \E i \in 1..Len(m) : m[i].key = key
MapGet(m, key) == m[CHOOSE i \in 1..Len(m) : m[i].key = key].val

RECURSIVE RouterMapFrom(_, _, _)
RouterMapFrom(routers, i, m) ==
  IF i > Len(routers) THEN m
  ELSE RouterMapFrom(routers, i + 1, MapSet(m, routers[i].routerId, routers[i]))

RouterAdded(r) ==
  [type |-> "router-added", routerId |-> r.routerId, linkId |-> NoLink,
   description |-> <<W("Router"), N(r.routerId), W("came"), W("online"),
                     W("(Area"), N(r.area)>>,
   oldValue |-> Undefined, newValue |-> Undefined]

RouterRemoved(r) ==
  [type |-> "router-removed", routerId |-> r.routerId, linkId |-> NoLink,
   description |-> <<W("Router"), N(r.routerId), W("went"), W("offline")>>,
   oldValue |-> Undefined, newValue |-> Undefined]

LinkAdded(link) ==
  [type |-> "link-added", routerId |-> NoId, linkId |-> link.id,
   description |-> <<W("Link"), N(link.source), W("<->"), N(link.target),
                     W("established"), W("(cost:"), N(link.cost)>>,
   oldValue |-> Undefined, newValue |-> Undefined]

LinkRemoved(link) ==
  [type |-> "link-removed", routerId |-> NoId, linkId |-> link.id,
   description |-> <<W("Link"), N(link.source), W("<->"), N(link.target),
                     W("disconnected")>>,
   oldValue |-> Undefined, newValue |-> Undefined]

MetricChanged(oldLink, newLink) ==
  [type |-> "metric-changed", routerId |-> NoId, linkId |-> newLink.id,
   description |-> <<W("Link"), N(newLink.source), W("<->"), N(newLink.target),
                     W("cost"), W("changed:"), N(oldLink.cost), W("->"),
                     N(newLink.cost)>>,
   oldValue |-> oldLink.cost, newValue |-> newLink.cost]

AreaChanged(oldRouter, r) ==
  [type |-> "area-changed", routerId |-> r.routerId, linkId |-> NoLink,
   description |-> <<W("Router"), N(r.routerId), W("moved"), W("from"), W("Area"),
                     N(oldRouter.area), W("to"), W("Area"), N(r.area)>>,
   oldValue |-> oldRouter.area, newValue |-> r.area]

RECURSIVE Concat(_, _)
Concat(ss, i) == IF i > Len(ss) THEN <<>> ELSE ss[i] \o Concat(ss, i + 1)

\* Lines 21-32.
NewRouters(oldTopo, newTopo) ==
  LET old == RouterIdSet(oldTopo)
      rs  == newTopo.routers
  IN  Concat([i \in 1..Len(rs) |->
                IF rs[i].routerId \notin old THEN <<RouterAdded(rs[i])>> ELSE <<>>], 1)

\* Lines 34-45.
RemovedRouters(oldTopo, newTopo) ==
  LET new == RouterIdSet(newTopo)
      rs  == oldTopo.routers
  IN  Concat([i \in 1..Len(rs) |->
                IF rs[i].routerId \notin new THEN <<RouterRemoved(rs[i])>> ELSE <<>>], 1)

\* Lines 61-72.
NewLinks(oldLinkMap, newLinkMap) ==
  Concat([i \in 1..Len(newLinkMap) |->
            IF ~MapHasKey(oldLinkMap, newLinkMap[i].key)
            THEN <<LinkAdded(newLinkMap[i].val)>> ELSE <<>>], 1)

\* Lines 74-85.
RemovedLinks(oldLinkMap, newLinkMap) ==
  Concat([i \in 1..Len(oldLinkMap) |->
            IF ~MapHasKey(newLinkMap, oldLinkMap[i].key)
            THEN <<LinkRemoved(oldLinkMap[i].val)>> ELSE <<>>], 1)

\* Lines 87-101.
MetricChanges(oldLinkMap, newLinkMap) ==
  Concat([i \in 1..Len(newLinkMap) |->
            IF MapHasKey(oldLinkMap, newLinkMap[i].key)
               /\ MapGet(oldLinkMap, newLinkMap[i].key).cost # newLinkMap[i].val.cost
            THEN <<MetricChanged(MapGet(oldLinkMap, newLinkMap[i].key), newLinkMap[i].val)>>
            ELSE <<>>], 1)

\* Lines 103-118.
AreaChanges(oldTopo, newTopo) ==
  LET oldRouterMap == RouterMapFrom(oldTopo.routers, 1, <<>>)
      rs == newTopo.routers
  IN  Concat([i \in 1..Len(rs) |->
                IF MapHasKey(oldRouterMap, rs[i].routerId)
                   /\ MapGet(oldRouterMap, rs[i].routerId).area # rs[i].area
                THEN <<AreaChanged(MapGet(oldRouterMap, rs[i].routerId), rs[i])>>
                ELSE <<>>], 1)

\* The id without the counter: `change-${Date.now()}`.
nextChangeId_NoCounter(now, counter) == <<"change", now, 0>>

\* nextChangeId: `change-${Date.now()}-${changeCounter++}`
nextChangeId(now, counter) == <<"change", now, counter>>

\* diffTopologies(oldTopo, newTopo) at time now with changeCounter = counter:
\* the changes in the order of the pushes, the i-th one with the i-th id.
diffTopologies(oldTopo, newTopo, now, counter) ==
  LET oldLinkMap == LinkMap(oldTopo.links)
      newLinkMap == LinkMap(newTopo.links)
      cs == NewRouters(oldTopo, newTopo)
            \o RemovedRouters(oldTopo, newTopo)
            \o NewLinks(oldLinkMap, newLinkMap)
            \o RemovedLinks(oldLinkMap, newLinkMap)
            \o MetricChanges(oldLinkMap, newLinkMap)
            \o AreaChanges(oldTopo, newTopo)
  IN  [i \in 1..Len(cs) |->
         [id |-> nextChangeId(now, counter + i - 1), type |-> cs[i].type,
          routerId |-> cs[i].routerId, linkId |-> cs[i].linkId,
          description |-> cs[i].description, oldValue |-> cs[i].oldValue,
          newValue |-> cs[i].newValue, timestamp |-> now]]

(***************************************************************************)
(* applyNodeStatuses, applyEdgeStatuses.  A node or edge without status    *)
(* has status "none", statusTimestamp 0 and oldCost Undefined.             *)
(***************************************************************************)
ChangeRouterIds(changes, type) ==
  {changes[i].routerId : i \in {j \in 1..Len(changes) :
       changes[j].type = type /\ changes[j].routerId # NoId}}

\* Lines 144-152.
AnnotateNode(node, changes, now) ==
  IF node.id \in ChangeRouterIds(changes, "router-added")
    THEN [node EXCEPT !.status = "new", !.statusTimestamp = now]
  ELSE IF node.id \in ChangeRouterIds(changes, "area-changed")
    THEN [node EXCEPT !.status = "changed", !.statusTimestamp = now]
  ELSE [node EXCEPT !.status = "stable"]

\* No old node is put back.
RemovedNodes_None(oldNodes, changes, now) == <<>>

\* Lines 154-163.
RemovedNodes(oldNodes, changes, now) ==
  Concat([i \in 1..Len(oldNodes) |->
            IF oldNodes[i].id \in ChangeRouterIds(changes, "router-removed")
            THEN <<[oldNodes[i] EXCEPT !.status = "removed", !.statusTimestamp = now]>>
            ELSE <<>>], 1)

applyNodeStatuses(nodes, changes, oldNodes, now) ==
  [i \in 1..Len(nodes) |-> AnnotateNode(nodes[i], changes, now)]
  \o RemovedNodes(oldNodes, changes, now)

\* c.description.match(/Link (.+?) <-> (.+?) /): the leftmost word "Link",
\* then the nearest later "<->" that leaves at least one word before it and
\* has a word after it that is itself followed by a space.  The two groups
\* are the words between "Link" and "<->", and the word after "<->".
NoKey == <<NoId, NoId>>

MatchStarts(desc) ==
  {i \in 1..Len(desc) : desc[i] = W("Link")
     /\ \E j \in (i + 2)..(Len(desc) - 2) : desc[j] = W("<->")}

\* linkKey(match[1], match[2]); NoKey when the description does not match.
\* A first group of several words gives a key with spaces in it, which is
\* the key of no edge: it is NoKey as well.
DescriptionKey(desc) ==
  IF MatchStarts(desc) = {} THEN NoKey
  ELSE LET i == CHOOSE x \in MatchStarts(desc) : \A y \in MatchStarts(desc) : x <= y
           js == {j \in (i + 2)..(Len(desc) - 2) : desc[j] = W("<->")}
           j == CHOOSE x \in js : \A y \in js : x <= y
       IN  IF j = i + 2 /\ desc[i + 1].w = "#" /\ desc[j + 1].w = "#"
           THEN linkKey(desc[i + 1].n, desc[j + 1].n)
           ELSE NoKey

ChangeLinkKeys(changes, type) ==
  {DescriptionKey(changes[i].description) :
     i \in {j \in 1..Len(changes) :
              /\ changes[j].type = type
              /\ changes[j].linkId # NoLink
              /\ DescriptionKey(changes[j].description) # NoKey}}

\* changedLinkKeys: the metric-changed changes whose description matches (no
\* linkId test here, line 196); get(key) is the last one set for the key.
ChangedIdx(changes, key) ==
  {j \in 1..Len(changes) :
     changes[j].type = "metric-changed" /\ DescriptionKey(changes[j].description) = key}

\* Lines 206-221 with the branches but no oldCost.
AnnotateEdge_NoOldCost(edge, changes, now) ==
  LET key == linkKey(edge.source, edge.target)
  IN  IF key \in ChangeLinkKeys(changes, "link-added")
        THEN [edge EXCEPT !.status = "new", !.statusTimestamp = now]
      ELSE IF ChangedIdx(changes, key) # {}
        THEN [edge EXCEPT !.status = "changed", !.statusTimestamp = now]
      ELSE [edge EXCEPT !.status = "stable"]

\* Lines 206-221.
AnnotateEdge(edge, changes, now) ==
  LET key == linkKey(edge.source, edge.target)
      idx == ChangedIdx(changes, key)
  IN  IF key \in ChangeLinkKeys(changes, "link-added")
        THEN [edge EXCEPT !.status = "new", !.statusTimestamp = now]
      ELSE IF idx # {}
        THEN [edge EXCEPT !.status = "changed", !.statusTimestamp = now,
                !.oldCost = changes[CHOOSE x \in idx : \A y \in idx : y <= x].oldValue]
      ELSE [edge EXCEPT !.status = "stable"]

\* Lines 223-233.
RemovedEdges(oldEdges, changes, now) ==
  Concat([i \in 1..Len(oldEdges) |->
            IF linkKey(oldEdges[i].source, oldEdges[i].target)
                 \in ChangeLinkKeys(changes, "link-removed")
            THEN <<[oldEdges[i] EXCEPT !.status = "removed", !.statusTimestamp = now]>>
            ELSE <<>>], 1)

applyEdgeStatuses(edges, changes, oldEdges, now) ==
  [i \in 1..Len(edges) |-> AnnotateEdge(edges[i], changes, now)]
  \o RemovedEdges(oldEdges, changes, now)

(***************************************************************************)
(* buildGraph: one node per router and per network, one edge per link.     *)
(* applyLayout then writes the x and y of these nodes; positions are not   *)
(* part of this model.                                                     *)
(***************************************************************************)
RouterNode(router) ==
  [id |-> router.id, type |-> "router", label |-> router.routerId,
   role |-> router.role, area |-> router.area,
   status |-> "none", statusTimestamp |-> 0]

NetworkNode(network) ==
  [id |-> network.id, type |-> "network", label |-> network.networkAddress,
   role |-> "none", area |-> network.area,
   status |-> "none", statusTimestamp |-> 0]

LinkEdge(link) ==
  [id |-> link.id, source |-> link.source, target |-> link.target,
   cost |-> link.cost, linkType |-> link.linkType, area |-> link.area,
   status |-> "none", statusTimestamp |-> 0, oldCost |-> Undefined]

buildGraph(topology) ==
  [nodes |-> [i \in 1..Len(topology.routers) |-> RouterNode(topology.routers[i])]
             \o [i \in 1..Len(topology.networks) |-> NetworkNode(topology.networks[i])],
   edges |-> [i \in 1..Len(topology.links) |-> LinkEdge(topology.links[i])]]

(***************************************************************************)
(* LSA text as the device prints it (lib/sample-data builds the same       *)
(* blocks).  A link of a Router LSA is given as [desc, linkId, metric].    *)
(***************************************************************************)
P2P(nbr, cost) == [desc |-> "another Router (point-to-point)", linkId |-> nbr, metric |-> cost]
Transit(net, cost) == [desc |-> "a Transit Network", linkId |-> net, metric |-> cost]
Stub(net, cost) == [desc |-> "a Stub Network", linkId |-> net, metric |-> cost]

LinkLines(l) ==
  << Line("linkconn", l.desc, 0),
     Line("linkid", "dotted", l.linkId),
     Line("linkdata", "dotted", l.linkId),
     Line("metric", "", l.metric) >>

RECURSIVE LinkBlocks(_, _)
LinkBlocks(links, i) ==
  IF i > Len(links) THEN <<>> ELSE LinkLines(links[i]) \o LinkBlocks(links, i + 1)

\* "Link State ID: <id>"; without a dotted value when the id is missing.
LsidLine(id) == IF id = NoId THEN Line("lsid", "blank", 0) ELSE Line("lsid", "dotted", id)

routerLSA(routerId, links, abr, asbr) ==
  << Line("age", "", 1), Line("other", "Options", 0),
     Line("lstype", "Router Links", 0), LsidLine(routerId),
     Line("adv", "dotted", routerId) >>
  \o (IF abr THEN <<Line("abr", "", 0)>> ELSE <<>>)
  \o (IF asbr THEN <<Line("asbr", "", 0)>> ELSE <<>>)
  \o LinkBlocks(links, 1)

RECURSIVE AttachedLines(_, _)
AttachedLines(attached, i) ==
  IF i > Len(attached) THEN <<>>
  ELSE <<Line("attached", "dotted", attached[i])>> \o AttachedLines(attached, i + 1)

netLSA(drAddr, drRouter, attached) ==
  << Line("age", "", 1), Line("lstype", "Network Links", 0), LsidLine(drAddr),
     Line("adv", "dotted", drRouter), Line("mask", "", 0) >>
  \o AttachedLines(attached, 1)

\* A Summary LSA: a block of a type the parser ignores.
summaryLSA(id) ==
  << Line("age", "", 1), Line("lstype", "Summary Links(Network)", 0), LsidLine(id) >>

areaHeader(prefix, n) == << Line("hdr", prefix, n) >>


(***************************************************************************)
(* State.                                                                  *)
(***************************************************************************)
VARIABLES
  blocks,          \* the text being entered, block by block
  inputText,       \* page: inputText, the lines of the text
  pc,              \* where the running computation stands
  routerLSAs,      \* parseOSPFData: Router LSAs still to process
  networkLSAs,     \* parseOSPFData: Network LSAs still to process
  parse,           \* parseOSPFData: routerMap, networkMap, links, areas, processedP2P
  result,          \* parseOSPFData: the returned topology, <<>> before the return
  earlierCall,     \* parseOSPFData: the input and the result of an earlier call, if kept
  oldTopo,        \* diffTopologies: first argument
  newTopo,         \* diffTopologies: second argument
  changes,         \* diffTopologies: the returned changes
  oldGraph,        \* the graph whose nodes and edges are handed in as the old ones
  annotatedNodes,  \* applyNodeStatuses: the returned nodes
  annotatedEdges,  \* applyEdgeStatuses: the returned edges
  now,             \* Date.now()
  changeCounter,   \* topology-diff: changeCounter
  topology,        \* page: topology, <<>> for null
  nodes,           \* page: nodes
  edges,           \* page: edges
  events,          \* page: events
  layout,          \* page: layout
  parseError,      \* page: parseError, TRUE when a message is set
  lastRaw,         \* polling-client: lastRawRef.current
  pollingState,    \* polling-client: pollingState (enabled, interval, lastUpdated, status, errorMessage)
  intervalRef,     \* polling-client: intervalRef.current, <<>> for null
  timers,          \* window: the interval timers that are set and not cleared
  effectPending,   \* polling-client: the start/stop effect is due to run again
  inFlight,        \* polling-client: the poll() calls that have not returned
  fitNodes,        \* computeAutoFit: nodes, the positions handed in
  viewport,        \* computeAutoFit: viewportWidth and viewportHeight
  transform,       \* computeAutoFit: the returned zoom, panX, panY; <<>> before the return
  px,              \* resolveOverlaps: px, the positions along the line of the nodes
  resolved,        \* resolveOverlaps: <<>> before the return, then what the return left
  latestSnapshot,  \* api/ospf-poll: latestSnapshot, <<>> for null
  publishedAt,     \* the timestamp of the snapshot poll last handed to onTopologyUpdate
  gridNodes,       \* forceDirectedLayout: px, py and the area of the nodes followed
  gridI,           \* forceDirectedLayout: i of the repulsion loop in grid mode
  forces           \* forceDirectedLayout: the repulsion forces added to vx, vy so far

parserVars == <<blocks, routerLSAs, networkLSAs, parse, result, earlierCall>>
diffVars == <<oldTopo, newTopo, changes, oldGraph, annotatedNodes, annotatedEdges>>
pageVars == <<topology, nodes, edges, events, layout, parseError, lastRaw>>

pollVars == <<pollingState, intervalRef, timers, effectPending, inFlight>>

layoutVars == <<fitNodes, viewport, transform, px, resolved>>

serverVars == <<latestSnapshot, publishedAt>>

gridVars == <<gridNodes, gridI, forces>>

vars == <<inputText, pc, parserVars, diffVars, now, changeCounter, pageVars, pollVars,
          layoutVars, serverVars, gridVars>>

EmptyTopology == [routers |-> <<>>, networks |-> <<>>, links |-> <<>>, areas |-> <<>>]

ParserIdle ==
  /\ blocks = <<>>
  /\ routerLSAs = <<>>
  /\ networkLSAs = <<>>
  /\ parse = EmptyParse
  /\ result = <<>>
  /\ earlierCall = <<>>

DiffIdle ==
  /\ oldTopo = EmptyTopology
  /\ newTopo = EmptyTopology
  /\ changes = <<>>
  /\ oldGraph = [nodes |-> <<>>, edges |-> <<>>]
  /\ annotatedNodes = <<>>
  /\ annotatedEdges = <<>>

\* The page after construction (the useState initial values), an empty
\* lastRawRef, and the polling client idle with its effect run once.
PageIdle ==
  /\ topology = <<>>
  /\ nodes = <<>>
  /\ edges = <<>>
  /\ events = <<>>
  /\ layout = "force-directed"
  /\ parseError = FALSE
  /\ lastRaw = <<>>
  /\ pollingState = [enabled |-> FALSE, interval |-> 10000, lastUpdated |-> Undefined,
                     status |-> "idle", errorMessage |-> FALSE]
  /\ intervalRef = <<>>
  /\ timers = {}
  /\ effectPending = FALSE
  /\ inFlight = <<>>

\* Nothing handed to the layout engine yet.
LayoutIdle ==
  /\ fitNodes = <<>>
  /\ viewport = <<0, 0>>
  /\ transform = <<>>
  /\ px = <<>>
  /\ resolved = <<>>

\* The server's module just loaded, and nothing published by a poll.
ServerIdle ==
  /\ latestSnapshot = <<>>
  /\ publishedAt = Undefined

\* No iteration of the force loop under way.
GridIdle ==
  /\ gridNodes = <<>>
  /\ gridI = 0
  /\ forces = <<>>

StartTime == 1000

InitParser ==
  /\ inputText = <<>>
  /\ pc = "edit"
  /\ ParserIdle
  /\ DiffIdle
  /\ PageIdle
  /\ LayoutIdle
  /\ ServerIdle
  /\ GridIdle
  /\ now = StartTime
  /\ changeCounter = 0

MaxBlocks == 3

\* One more block of text is entered.
AppendBlock(kind, id, links, attached, lines) ==
  /\ pc = "edit"
  /\ Len(blocks) < MaxBlocks
  /\ blocks' = Append(blocks, [kind |-> kind, id |-> id, links |-> links,
                               attached |-> attached, lines |-> lines])
  /\ inputText' = inputText \o lines
  /\ UNCHANGED <<pc, routerLSAs, networkLSAs, parse, result, earlierCall>>
  /\ UNCHANGED <<diffVars, now, changeCounter, pageVars, pollVars>>
  /\ UNCHANGED <<layoutVars, serverVars, gridVars>>

AppendAreaHeader(prefixes, areaNums) ==
  \E p \in prefixes, n \in areaNums :
    AppendBlock("hdr", n, <<>>, <<>>, areaHeader(p, n))

AppendRouterLSA(ids, linkLists, flags) ==
  \E id \in ids, ls \in linkLists, f \in flags :
    AppendBlock("router", id, ls, <<>>, routerLSA(id, ls, f[1], f[2]))

AppendNetworkLSA(nets, drs, attachedLists) ==
  \E n \in nets, dr \in drs, at \in attachedLists :
    AppendBlock("network", n, <<>>, at, netLSA(n, dr, at))

AppendSummaryLSA(ids) ==
  \E id \in ids : AppendBlock("summary", id, <<>>, <<>>, summaryLSA(id))

\* parseOSPFData, lines 14-22: the maps, the link list and the sets are
\* created anew in each call.
ParseBegin_KeepMaps ==
  /\ pc = "edit"
  /\ Len(blocks) > 0
  /\ pc' = "routers"
  /\ routerLSAs' = parseRouterLSAs(inputText)
  /\ networkLSAs' = parseNetworkLSAs(inputText)
  /\ parse' = parse
  /\ UNCHANGED <<blocks, inputText, result, earlierCall>>
  /\ UNCHANGED <<diffVars, now, changeCounter, pageVars, pollVars>>
  /\ UNCHANGED <<layoutVars, serverVars, gridVars>>

ParseBegin ==
  /\ pc = "edit"
  /\ Len(blocks) > 0
  /\ pc' = "routers"
  /\ routerLSAs' = parseRouterLSAs(inputText)
  /\ networkLSAs' = parseNetworkLSAs(inputText)
  /\ parse' = EmptyParse
  /\ UNCHANGED <<blocks, inputText, result, earlierCall>>
  /\ UNCHANGED <<diffVars, now, changeCounter, pageVars, pollVars>>
  /\ UNCHANGED <<layoutVars, serverVars, gridVars>>

\* One iteration of the loop of lines 25-83.
ParseRouterLSA ==
  /\ pc = "routers"
  /\ Len(routerLSAs) > 0
  /\ parse' = RouterLSAStep(parse, Head(routerLSAs))
  /\ routerLSAs' = Tail(routerLSAs)
  /\ UNCHANGED <<blocks, inputText, pc, networkLSAs, result, earlierCall>>
  /\ UNCHANGED <<diffVars, now, changeCounter, pageVars, pollVars>>
  /\ UNCHANGED <<layoutVars, serverVars, gridVars>>

\* One iteration of the loop of lines 86-126.
ParseNetworkLSA ==
  /\ pc = "routers"
  /\ Len(routerLSAs) = 0
  /\ Len(networkLSAs) > 0
  /\ parse' = NetworkLSAStep(parse, Head(networkLSAs))
  /\ networkLSAs' = Tail(networkLSAs)
  /\ UNCHANGED <<blocks, inputText, pc, routerLSAs, result, earlierCall>>
  /\ UNCHANGED <<diffVars, now, changeCounter, pageVars, pollVars>>
  /\ UNCHANGED <<layoutVars, serverVars, gridVars>>

\* Lines 128-133.
ParseReturn ==
  /\ pc = "routers"
  /\ Len(routerLSAs) = 0
  /\ Len(networkLSAs) = 0
  /\ pc' = "parsed"
  /\ result' = <<ParseResult(parse)>>
  /\ UNCHANGED <<blocks, inputText, routerLSAs, networkLSAs, parse, earlierCall>>
  /\ UNCHANGED <<diffVars, now, changeCounter, pageVars, pollVars>>
  /\ UNCHANGED <<layoutVars, serverVars, gridVars>>

ParseSteps == ParseBegin \/ ParseRouterLSA \/ ParseNetworkLSA \/ ParseReturn

(***************************************************************************)
(* What the entered text says, read off the blocks as they were entered.   *)
(***************************************************************************)
\* The number of the nearest area header before block i, "0" without one.
RECURSIVE HeaderBefore(_, _)
HeaderBefore(bs, i) ==
  IF i <= 1 THEN 0
  ELSE IF bs[i - 1].kind = "hdr" THEN bs[i - 1].id
  ELSE HeaderBefore(bs, i - 1)

\* The areas of the LSA blocks of one kind that carry an id, in text order.
RECURSIVE EnteredAreas(_, _, _)
EnteredAreas(bs, kind, i) ==
  IF i > Len(bs) THEN <<>>
  ELSE (IF bs[i].kind = kind /\ bs[i].id # NoId THEN <<HeaderBefore(bs, i)>> ELSE <<>>)
       \o EnteredAreas(bs, kind, i + 1)

AreasOf(lsas) == [i \in 1..Len(lsas) |-> lsas[i].area]

ParseBegun == pc = "routers" /\ parse = EmptyParse

(***************************************************************************)
(* Area context: texts of area headers of every prefix, Router, Network    *)
(* and Summary LSAs.                                                       *)
(***************************************************************************)
HeaderAreas == {1, 2}

NextArea ==
  \/ AppendAreaHeader(HeaderPrefixes, HeaderAreas)
  \/ AppendRouterLSA({1}, {<<>>}, {<<FALSE, FALSE>>})
  \/ AppendNetworkLSA({10}, {1}, {<<1>>})
  \/ AppendSummaryLSA({5})
  \/ ParseSteps

SpecArea == InitParser /\ [][NextArea]_vars

\* C7: every Router and every Network LSA block gets the area of the nearest
\* area header that precedes it in the text ("0" without one), whatever the
\* prefix of the header, and a header that follows the block does not
\* change it.
C7_AreaOfPrecedingHeader ==
  ParseBegun =>
    /\ AreasOf(routerLSAs) = EnteredAreas(blocks, "router", 1)
    /\ AreasOf(networkLSAs) = EnteredAreas(blocks, "network", 1)

(***************************************************************************)
(* Router roles: Router LSAs of two routers with every combination of the  *)
(* border flags, and Network LSAs that reference them.                     *)
(***************************************************************************)
FlagSets == {<<FALSE, FALSE>>, <<TRUE, FALSE>>, <<FALSE, TRUE>>, <<TRUE, TRUE>>}
NoFlags == {<<FALSE, FALSE>>}

NextRole ==
  \/ AppendRouterLSA({1, 2}, {<<>>}, FlagSets)
  \/ AppendNetworkLSA({10}, {1}, {<<1>>, <<1, 2>>})
  \/ ParseSteps

SpecRole == InitParser /\ [][NextRole]_vars

Downgrade(old, new) ==
  \/ old \in {"abr", "asbr"} /\ new = "internal"
  \/ old = "asbr" /\ new = "abr"

\* C6: within one parseOSPFData call no step of the loops over the Router
\* and Network LSAs takes a router from abr or asbr back to internal, or
\* from asbr to abr.
C6_RoleNeverDowngraded ==
  [][pc = "routers" =>
       \A i \in 1..Len(parse.routerMap) :
         ~Downgrade(parse.routerMap[i].role, parse'.routerMap[i].role)]_vars

\* The Router LSAs the running parse has processed so far.
ProcessedRouterLSAs ==
  LET all == parseRouterLSAs(inputText)
  IN  SubSeq(all, 1, Len(all) - Len(routerLSAs))

\* An asbr router whose later block carries the ABR flag only has been merged.
C6_Witness ==
  /\ pc = "routers"
  /\ \E i, j \in 1..Len(ProcessedRouterLSAs) :
       /\ i < j
       /\ ProcessedRouterLSAs[i].routerId = ProcessedRouterLSAs[j].routerId
       /\ ProcessedRouterLSAs[i].isASBR
       /\ ProcessedRouterLSAs[j].isABR /\ ~ProcessedRouterLSAs[j].isASBR
       /\ parse.routerMap[IndexOf(parse.routerMap, ProcessedRouterLSAs[j].routerId)].role = "asbr"

(***************************************************************************)
(* Point-to-point links: Router LSAs of routers 1 and 2 (and blocks with   *)
(* no recoverable id) that list a neighbour, in area 0 or 1.               *)
(***************************************************************************)
P2PLinkLists == {<<>>, <<P2P(1, 10)>>, <<P2P(2, 10)>>, <<P2P(2, 20)>>, <<P2P(3, 10)>>}

\* The entered text without the Router LSA blocks of router x.
RECURSIVE TextWithout(_, _, _)
TextWithout(bs, x, i) ==
  IF i > Len(bs) THEN <<>>
  ELSE (IF bs[i].kind = "router" /\ bs[i].id = x THEN <<>> ELSE bs[i].lines)
       \o TextWithout(bs, x, i + 1)

HasRouterBlock(x) == \E i \in 1..Len(blocks) : blocks[i].kind = "router" /\ blocks[i].id = x

\* The next snapshot: the Router LSA blocks of one router are taken out of
\* the text, the text is parsed again and compared with the topology parsed
\* before (page, handleParse lines 184 and 195).
RemoveRouterAndDiff ==
  /\ pc = "parsed"
  /\ \E x \in {1, 2} :
       /\ HasRouterBlock(x)
       /\ inputText' = TextWithout(blocks, x, 1)
  /\ oldTopo' = result[1]
  /\ newTopo' = parseOSPFData(inputText')
  /\ changes' = diffTopologies(oldTopo', newTopo', now, changeCounter)
  /\ changeCounter' = changeCounter + Len(changes')
  /\ pc' = "diffed"
  /\ UNCHANGED <<parserVars, oldGraph, annotatedNodes, annotatedEdges, now, pageVars, pollVars>>
  /\ UNCHANGED <<layoutVars, serverVars, gridVars>>

NextP2P ==
  \/ AppendAreaHeader({"Router"}, {1})
  \/ AppendRouterLSA({1, 2, NoId}, P2PLinkLists, NoFlags)
  \/ AppendNetworkLSA({10}, {1}, {<<1>>})
  \/ ParseSteps
  \/ RemoveRouterAndDiff

SpecP2P == InitParser /\ [][NextP2P]_vars

AllIds == {1, 2, 3, 10, 11}

\* The entered text has a Router LSA with an id that lists a point-to-point
\* link between a and b.
ListsP2P(a, b) ==
  \E i \in 1..Len(blocks) :
    /\ blocks[i].kind = "router"
    /\ blocks[i].id # NoId
    /\ \E j \in 1..Len(blocks[i].links) :
         /\ blocks[i].links[j].desc = "another Router (point-to-point)"
         /\ {blocks[i].id, blocks[i].links[j].linkId} = {a, b}

LinksBetween(topo, a, b, kind) ==
  {i \in 1..Len(topo.links) :
     topo.links[i].linkType = kind /\ {topo.links[i].source, topo.links[i].target} = {a, b}}

TwoRouterText ==
  routerLSA(1, <<P2P(2, 10)>>, FALSE, FALSE) \o routerLSA(2, <<P2P(1, 10)>>, FALSE, FALSE)

\* C4: the returned topology has exactly one point-to-point link for every
\* pair of ids that some Router LSA with an id lists, and none for any other
\* pair; routers 1 and 2 advertising each other at cost 10 in area 0 give
\* 2 routers, 1 link (cost 10, point-to-point, area 0) and no network.
C4_OneLinkPerPair ==
  pc = "parsed" =>
    /\ \A a, b \in AllIds :
         Cardinality(LinksBetween(result[1], a, b, "point-to-point"))
           = IF ListsP2P(a, b) THEN 1 ELSE 0
    /\ inputText = TwoRouterText =>
         /\ Len(result[1].routers) = 2
         /\ Len(result[1].networks) = 0
         /\ Len(result[1].links) = 1
         /\ result[1].links[1].cost = 10
         /\ result[1].links[1].linkType = "point-to-point"
         /\ result[1].links[1].area = 0

\* Both endpoints of a pair have advertised it and the text has been parsed.
C4_Witness ==
  /\ pc = "parsed"
  /\ \E i, j \in 1..Len(blocks) :
       /\ i # j
       /\ blocks[i].kind = "router" /\ blocks[j].kind = "router"
       /\ blocks[i].id = 1 /\ blocks[j].id = 2
       /\ blocks[i].links \in {<<P2P(2, 10)>>, <<P2P(2, 20)>>}
       /\ blocks[j].links = <<P2P(1, 10)>>
  /\ Cardinality(LinksBetween(result[1], 1, 2, "point-to-point")) = 1

(***************************************************************************)
(* Network LSAs: networks 10 and 11 with one to three attached routers,    *)
(* and Router LSAs that do or do not list the network.                     *)
(***************************************************************************)
NextNet ==
  \/ AppendAreaHeader({"Net"}, {1})
  \/ AppendRouterLSA({1, 2}, {<<>>, <<Transit(10, 10)>>}, NoFlags)
  \/ AppendNetworkLSA({10, 11}, {1}, {<<1>>, <<1, 2>>, <<1, 2, 3>>})
  \/ ParseSteps

SpecNet == InitParser /\ [][NextNet]_vars

NetworkBlocks(n) == {i \in 1..Len(blocks) : blocks[i].kind = "network" /\ blocks[i].id = n}

Elems(seq) == {seq[i] : i \in 1..Len(seq)}

\* C5: a Network LSA for n with k distinct attached routers (all Network LSA
\* blocks of n in the text being that block) gives exactly one network n and
\* exactly k transit links, one n-r of cost 0 per attached router r.
C5_NetworkAndTransitLinks ==
  pc = "parsed" =>
    \A n \in AllIds :
      \A i \in NetworkBlocks(n) :
        (\A j \in NetworkBlocks(n) : blocks[j].attached = blocks[i].attached) =>
          /\ Cardinality({x \in 1..Len(result[1].networks) : result[1].networks[x].id = n}) = 1
          /\ Cardinality({x \in 1..Len(result[1].links) :
                            /\ result[1].links[x].linkType = "transit"
                            /\ n \in {result[1].links[x].source, result[1].links[x].target}})
               = Cardinality(Elems(blocks[i].attached))
          /\ \A r \in Elems(blocks[i].attached) :
               /\ Cardinality(LinksBetween(result[1], n, r, "transit")) = 1
               /\ \A x \in LinksBetween(result[1], n, r, "transit") :
                    result[1].links[x].cost = 0

\* The Network LSA of network 10 is in the text twice, and so is a Router LSA
\* of an attached router that lists the network.
C5_Witness ==
  /\ pc = "parsed"
  /\ Cardinality(NetworkBlocks(10)) = 2
  /\ \A j \in NetworkBlocks(10) : blocks[j].attached = <<1, 2>>
  /\ \E i \in 1..Len(blocks) :
       blocks[i].kind = "router" /\ blocks[i].id = 1 /\ blocks[i].links = <<Transit(10, 10)>>
  /\ Cardinality({x \in 1..Len(result[1].links) : result[1].links[x].linkType = "transit"}) = 2

(***************************************************************************)
(* The differ and the status annotator on arbitrary topologies: lists of   *)
(* routers and links that may repeat a router id or an endpoint pair.      *)
(***************************************************************************)
MaxRouters == 2
MaxLinks == 2
TickMs == 2500

SeqsUpTo(S, n) == UNION {[1..k -> S] : k \in 0..n}

RouterValue(id, area) ==
  [id |-> id, routerId |-> id, role |-> "internal", area |-> area,
   lsaTypes |-> <<"Router LSA (Type 1)">>, neighbors |-> <<>>, networks |-> <<>>]

LinkValue(src, tgt, cost) ==
  [id |-> <<"p2p", src, tgt>>, source |-> src, target |-> tgt, cost |-> cost,
   linkType |-> "point-to-point", area |-> 0]

NetworkValue(id) ==
  [id |-> id, networkAddress |-> id, attachedRouters |-> <<>>,
   designatedRouter |-> NoId, area |-> 0]

RouterValues == {RouterValue(1, 0), RouterValue(1, 1), RouterValue(2, 0)}
LinkValues == {LinkValue(1, 2, 10), LinkValue(2, 1, 20)}

Topologies ==
  {[routers |-> rs, networks |-> <<NetworkValue(10)>>, links |-> ls, areas |-> <<0>>] :
     rs \in SeqsUpTo(RouterValues, MaxRouters), ls \in SeqsUpTo(LinkValues, MaxLinks)}

InitDiff ==
  /\ inputText = <<>>
  /\ pc = "diff"
  /\ ParserIdle
  /\ PageIdle
  /\ LayoutIdle
  /\ ServerIdle
  /\ GridIdle
  /\ oldTopo \in Topologies
  /\ newTopo \in Topologies
  /\ changes = <<>>
  /\ oldGraph = [nodes |-> <<>>, edges |-> <<>>]
  /\ annotatedNodes = <<>>
  /\ annotatedEdges = <<>>
  /\ now = StartTime
  /\ changeCounter = 0

\* changes = diffTopologies(oldTopo, newTopo)
Diff ==
  /\ pc = "diff"
  /\ changes' = diffTopologies(oldTopo, newTopo, now, changeCounter)
  /\ changeCounter' = changeCounter + Len(changes')
  /\ pc' = "diffed"
  /\ UNCHANGED <<inputText, parserVars, oldTopo, newTopo, oldGraph,
                 annotatedNodes, annotatedEdges, now, pageVars, pollVars>>
  /\ UNCHANGED <<layoutVars, serverVars, gridVars>>

\* The graph of the new topology is annotated with the changes, some time
\* later; the old nodes and edges handed in are the graph of the old
\* topology, or an old graph that holds none of its elements.
\* (In the variant the removed old nodes are marked in place, not copied.)
Annotate_MarksOldNodes ==
  /\ pc = "diffed"
  /\ \E t \in {now, now + TickMs} : now' = t
  /\ \E og \in {buildGraph(oldTopo), buildGraph(EmptyTopology)} :
       oldGraph' = [og EXCEPT !.nodes =
                      [i \in 1..Len(og.nodes) |->
                         IF og.nodes[i].id \in ChangeRouterIds(changes, "router-removed")
                         THEN [og.nodes[i] EXCEPT !.status = "removed",
                                                  !.statusTimestamp = now']
                         ELSE og.nodes[i]]]
  /\ annotatedNodes' = applyNodeStatuses(buildGraph(newTopo).nodes, changes, oldGraph'.nodes, now')
  /\ annotatedEdges' = applyEdgeStatuses(buildGraph(newTopo).edges, changes, oldGraph'.edges, now')
  /\ pc' = "annotated"
  /\ UNCHANGED <<inputText, parserVars, oldTopo, newTopo, changes, changeCounter, pageVars, pollVars>>
  /\ UNCHANGED <<layoutVars, serverVars, gridVars>>

Annotate ==
  /\ pc = "diffed"
  /\ \E t \in {now, now + TickMs} : now' = t
  /\ \E og \in {buildGraph(oldTopo), buildGraph(EmptyTopology)} : oldGraph' = og
  /\ annotatedNodes' = applyNodeStatuses(buildGraph(newTopo).nodes, changes, oldGraph'.nodes, now')
  /\ annotatedEdges' = applyEdgeStatuses(buildGraph(newTopo).edges, changes, oldGraph'.edges, now')
  /\ pc' = "annotated"
  /\ UNCHANGED <<inputText, parserVars, oldTopo, newTopo, changes, changeCounter, pageVars, pollVars>>
  /\ UNCHANGED <<layoutVars, serverVars, gridVars>>

NextDiff == Diff \/ Annotate

SpecDiff == InitDiff /\ [][NextDiff]_vars

ChangesOf(cs, type) == {i \in 1..Len(cs) : cs[i].type = type}

\* The unordered endpoint pair of a link change, read off the link id.
ChangePair(c) == {c.linkId[2], c.linkId[3]}

\* Every change of type t1 in cs has one of type t2 for the same router id
\* (or endpoint pair) in ds.
RouterCounterpart(cs, t1, ds, t2) ==
  \A i \in ChangesOf(cs, t1) : \E j \in ChangesOf(ds, t2) : ds[j].routerId = cs[i].routerId
LinkCounterpart(cs, t1, ds, t2) ==
  \A i \in ChangesOf(cs, t1) : \E j \in ChangesOf(ds, t2) : ChangePair(ds[j]) = ChangePair(cs[i])

\* Every metric-changed / area-changed change of cs has a counterpart in ds
\* with old and new value swapped.
SwappedCounterpart(cs, ds) ==
  /\ \A i \in ChangesOf(cs, "metric-changed") : \E j \in ChangesOf(ds, "metric-changed") :
       /\ ChangePair(ds[j]) = ChangePair(cs[i])
       /\ ds[j].oldValue = cs[i].newValue /\ ds[j].newValue = cs[i].oldValue
  /\ \A i \in ChangesOf(cs, "area-changed") : \E j \in ChangesOf(ds, "area-changed") :
       /\ ds[j].routerId = cs[i].routerId
       /\ ds[j].oldValue = cs[i].newValue /\ ds[j].newValue = cs[i].oldValue

Inverse(cs, ds) ==
  /\ RouterCounterpart(cs, "router-added", ds, "router-removed")
  /\ RouterCounterpart(cs, "router-removed", ds, "router-added")
  /\ RouterCounterpart(ds, "router-added", cs, "router-removed")
  /\ RouterCounterpart(ds, "router-removed", cs, "router-added")
  /\ LinkCounterpart(cs, "link-added", ds, "link-removed")
  /\ LinkCounterpart(cs, "link-removed", ds, "link-added")
  /\ LinkCounterpart(ds, "link-added", cs, "link-removed")
  /\ LinkCounterpart(ds, "link-removed", cs, "link-added")
  /\ SwappedCounterpart(cs, ds)
  /\ SwappedCounterpart(ds, cs)

RemovedRouterIds == {changes[i].routerId : i \in ChangesOf(changes, "router-removed")}
RemovedPairs == {ChangePair(changes[i]) : i \in ChangesOf(changes, "link-removed")}

Tombstone(x) == [x EXCEPT !.status = "removed", !.statusTimestamp = now]

\* C8: every old node whose id a router-removed change names is in the
\* nodes applyNodeStatuses returns, with status removed and the time of the
\* call; every old edge whose endpoint pair a link-removed change of
\* diffTopologies names is in the edges applyEdgeStatuses returns, likewise;
\* a removed id or pair that the old graph does not hold adds nothing.
C8_RemovedReinserted ==
  pc = "annotated" =>
    /\ now > 0
    /\ \A i \in 1..Len(oldGraph.nodes) :
         oldGraph.nodes[i].id \in RemovedRouterIds =>
           \E j \in 1..Len(annotatedNodes) : annotatedNodes[j] = Tombstone(oldGraph.nodes[i])
    /\ \A i \in 1..Len(oldGraph.edges) :
         {oldGraph.edges[i].source, oldGraph.edges[i].target} \in RemovedPairs =>
           \E j \in 1..Len(annotatedEdges) : annotatedEdges[j] = Tombstone(oldGraph.edges[i])
    /\ Len(annotatedNodes) = Len(buildGraph(newTopo).nodes)
         + Cardinality({i \in 1..Len(oldGraph.nodes) : oldGraph.nodes[i].id \in RemovedRouterIds})
    /\ Len(annotatedEdges) = Len(buildGraph(newTopo).edges)
         + Cardinality({i \in 1..Len(oldGraph.edges) :
                          {oldGraph.edges[i].source, oldGraph.edges[i].target} \in RemovedPairs})

\* A removed router and a removed link of the old graph have been put back.
C8_Witness ==
  /\ pc = "annotated"
  /\ RemovedRouterIds # {} /\ RemovedPairs # {}
  /\ oldGraph = buildGraph(oldTopo)
  /\ \E j \in 1..Len(annotatedNodes) : annotatedNodes[j].status = "removed"
  /\ \E j \in 1..Len(annotatedEdges) : annotatedEdges[j].status = "removed"

NodeStatus(node) ==
  IF \E k \in ChangesOf(changes, "router-added") : changes[k].routerId = node.id THEN "new"
  ELSE IF \E k \in ChangesOf(changes, "area-changed") : changes[k].routerId = node.id
    THEN "changed"
  ELSE "stable"

EdgeStatus(edge) ==
  IF \E k \in ChangesOf(changes, "link-added") :
       ChangePair(changes[k]) = {edge.source, edge.target} THEN "new"
  ELSE IF \E k \in ChangesOf(changes, "metric-changed") :
       ChangePair(changes[k]) = {edge.source, edge.target} THEN "changed"
  ELSE "stable"

Stamp(status) == IF status \in {"new", "changed"} THEN now ELSE 0

\* C9: the returned nodes (edges) start with the nodes (edges) of the new
\* graph, each once and in order, with status new and the time of the call
\* iff an added change names it, else changed iff an area-changed
\* (metric-changed) change names it, else stable; a changed edge has the
\* oldValue of its metric-changed change as oldCost; what follows them are
\* the removed elements.
C9_NewGraphAnnotated ==
  pc = "annotated" =>
    LET nn == buildGraph(newTopo).nodes
        ne == buildGraph(newTopo).edges
    IN  /\ Len(annotatedNodes) >= Len(nn)
        /\ Len(annotatedEdges) >= Len(ne)
        /\ \A i \in 1..Len(nn) :
             annotatedNodes[i] = [nn[i] EXCEPT !.status = NodeStatus(nn[i]),
                                               !.statusTimestamp = Stamp(NodeStatus(nn[i]))]
        /\ \A i \in (Len(nn) + 1)..Len(annotatedNodes) : annotatedNodes[i].status = "removed"
        /\ \A i \in 1..Len(ne) :
             /\ annotatedEdges[i].status = EdgeStatus(ne[i])
             /\ annotatedEdges[i].statusTimestamp = Stamp(EdgeStatus(ne[i]))
             /\ [annotatedEdges[i] EXCEPT !.status = "none", !.statusTimestamp = 0,
                                          !.oldCost = Undefined] = ne[i]
             /\ IF EdgeStatus(ne[i]) = "changed"
                THEN \E k \in ChangesOf(changes, "metric-changed") :
                       /\ ChangePair(changes[k]) = {ne[i].source, ne[i].target}
                       /\ annotatedEdges[i].oldCost = changes[k].oldValue
                ELSE annotatedEdges[i].oldCost = Undefined
        /\ \A i \in (Len(ne) + 1)..Len(annotatedEdges) : annotatedEdges[i].status = "removed"

\* The new graph has a new node, a changed node, a stable node and an edge
\* whose cost changed.
C9_Witness ==
  /\ pc = "annotated"
  /\ \E j \in 1..Len(annotatedNodes) : annotatedNodes[j].status = "new"
  /\ \E j \in 1..Len(annotatedNodes) : annotatedNodes[j].status = "changed"
  /\ \E j \in 1..Len(annotatedNodes) : annotatedNodes[j].status = "stable"
  /\ \E j \in 1..Len(annotatedEdges) :
       annotatedEdges[j].status = "changed" /\ annotatedEdges[j].oldCost # Undefined

\* The point-to-point pairs with endpoint x in a topology.
P2PPairsOf(topo, x) ==
  {{topo.links[i].source, topo.links[i].target} :
     i \in {j \in 1..Len(topo.links) :
              /\ topo.links[j].linkType = "point-to-point"
              /\ x \in {topo.links[j].source, topo.links[j].target}}}

\* C1: when snapshot B is snapshot A without the Router LSA blocks of router
\* x, diffTopologies(parse(A), parse(B)) is exactly one router-removed
\* change for x and one link-removed change for each point-to-point pair
\* {x, neighbour} of A.
C1_RouterRemovalDiff ==
  (pc = "diffed" /\ blocks # <<>>) =>
    \A x \in {1, 2} :
      (HasRouterBlock(x) /\ inputText = TextWithout(blocks, x, 1)) =>
        /\ \E i \in ChangesOf(changes, "router-removed") :
             /\ changes[i].routerId = x
             /\ ChangesOf(changes, "router-removed") = {i}
        /\ \A pr \in P2PPairsOf(oldTopo, x) :
             Cardinality({i \in ChangesOf(changes, "link-removed") :
                            ChangePair(changes[i]) = pr}) = 1
        /\ Len(changes) = 1 + Cardinality(P2PPairsOf(oldTopo, x))

(***************************************************************************)
(* The page: its handlers and the polling update, on a few texts.          *)
(***************************************************************************)
REMOVED_FADE_DURATION == 5000
MaxTime == 6000
MaxChanges == 2

Layouts == {"force-directed", "hierarchical", "radial"}

\* Router 1 alone; routers 1 and 2 linked; only Summary LSAs (no router, no
\* network).
TextR1 == routerLSA(1, <<>>, FALSE, FALSE)
TextNoData == summaryLSA(5)
PageTexts == {TextR1, TwoRouterText, TextNoData}

\* sampleOSPFData: the text the page loads by itself (a small one here).
sampleOSPFData ==
  areaHeader("Router", 0) \o TwoRouterText
  \o areaHeader("Router", 1) \o routerLSA(3, <<P2P(1, 10)>>, TRUE, FALSE)

InitPage ==
  /\ inputText = <<>>
  /\ pc = "mount"
  /\ ParserIdle
  /\ DiffIdle
  /\ PageIdle
  /\ LayoutIdle
  /\ ServerIdle
  /\ GridIdle
  /\ now = StartTime
  /\ changeCounter = 0

IsEmptyTopology(t) == Len(t.routers) = 0 /\ Len(t.networks) = 0

\* The new topology is published with its statuses: what handleParse (lines
\* 197-204) and handlePollingUpdate (lines 101-105) do with a non-empty list
\* of changes.
PublishAnnotated(topo, cs) ==
  /\ nodes' = applyNodeStatuses(buildGraph(topo).nodes, cs, nodes, now)
  /\ edges' = applyEdgeStatuses(buildGraph(topo).edges, cs, edges, now)
  /\ events' = events \o cs
  /\ topology' = <<topo>>

\* The new topology is published as built.
PublishPlain(topo) ==
  /\ nodes' = buildGraph(topo).nodes
  /\ edges' = buildGraph(topo).edges
  /\ topology' = <<topo>>
  /\ UNCHANGED events

\* handlePollingUpdate, and with it poll, is a new function after a render
\* with other nodes, edges or layout (the deps of page line 114 and
\* polling-client line 253), so the start/stop effect is due again.  With
\* polling disabled that run of the effect changes nothing and is not kept.
PollRecreated ==
  /\ effectPending' = (effectPending \/ pollingState.enabled)
  /\ UNCHANGED <<pollingState, intervalRef, timers, inFlight>>

\* useEffect of lines 124-137: the sample is loaded on the first render.
AutoLoadSample ==
  /\ pc = "mount"
  /\ pc' = "ready"
  /\ inputText' = sampleOSPFData
  /\ PublishPlain(parseOSPFData(sampleOSPFData))
  /\ PollRecreated
  /\ UNCHANGED <<parserVars, diffVars, now, changeCounter, layout, parseError, lastRaw>>
  /\ UNCHANGED <<layoutVars, serverVars, gridVars>>

\* The user edits the text of the input panel.
setInputText ==
  /\ pc = "ready"
  /\ \E t \in PageTexts : inputText' = t
  /\ UNCHANGED <<pc, parserVars, diffVars, now, changeCounter, pageVars, pollVars>>
  /\ UNCHANGED <<layoutVars, serverVars, gridVars>>

\* Lines 179-228 without the test of lines 185-191.
handleParse_NoEmptyTest ==
  /\ pc = "ready"
  /\ changeCounter < MaxChanges
  /\ LET parsed == parseOSPFData(inputText)
         cs == IF topology # <<>>
               THEN diffTopologies(topology[1], parsed, now, changeCounter)
               ELSE <<>>
     IN  /\ parseError' = FALSE
         /\ changeCounter' = changeCounter + Len(cs)
         /\ IF Len(cs) > 0 THEN PublishAnnotated(parsed, cs) ELSE PublishPlain(parsed)
         /\ PollRecreated
  /\ UNCHANGED <<inputText, pc, parserVars, diffVars, now, layout, lastRaw>>
  /\ UNCHANGED <<layoutVars, serverVars, gridVars>>

handleParse ==
  /\ pc = "ready"
  /\ changeCounter < MaxChanges
  /\ LET parsed == parseOSPFData(inputText)
         cs == IF topology # <<>>
               THEN diffTopologies(topology[1], parsed, now, changeCounter)
               ELSE <<>>
     IN  IF IsEmptyTopology(parsed)
         THEN /\ parseError' = TRUE
              /\ UNCHANGED <<topology, nodes, edges, events, changeCounter, pollVars>>
         ELSE /\ parseError' = FALSE
              /\ changeCounter' = changeCounter + Len(cs)
              /\ IF Len(cs) > 0 THEN PublishAnnotated(parsed, cs) ELSE PublishPlain(parsed)
              /\ PollRecreated
  /\ UNCHANGED <<inputText, pc, parserVars, diffVars, now, layout, lastRaw>>
  /\ UNCHANGED <<layoutVars, serverVars, gridVars>>

handleLayoutChange ==
  /\ pc = "ready"
  /\ \E newLayout \in Layouts : layout' = newLayout
  /\ IF topology # <<>>
     THEN /\ nodes' = buildGraph(topology[1]).nodes
          /\ edges' = buildGraph(topology[1]).edges
     ELSE UNCHANGED <<nodes, edges>>
  /\ IF topology # <<>> \/ layout' # layout THEN PollRecreated ELSE UNCHANGED pollVars
  /\ UNCHANGED <<inputText, pc, parserVars, diffVars, now, changeCounter,
                 topology, events, parseError, lastRaw>>
  /\ UNCHANGED <<layoutVars, serverVars, gridVars>>

handleLoadSample ==
  /\ pc = "ready"
  /\ inputText' = sampleOSPFData
  /\ parseError' = FALSE
  /\ PublishPlain(parseOSPFData(sampleOSPFData))
  /\ PollRecreated
  /\ UNCHANGED <<pc, parserVars, diffVars, now, changeCounter, layout, lastRaw>>
  /\ UNCHANGED <<layoutVars, serverVars, gridVars>>

handleClear ==
  /\ pc = "ready"
  /\ inputText' = <<>>
  /\ topology' = <<>>
  /\ nodes' = <<>>
  /\ edges' = <<>>
  /\ parseError' = FALSE
  /\ events' = <<>>
  /\ PollRecreated
  /\ UNCHANGED <<pc, parserVars, diffVars, now, changeCounter, layout, lastRaw>>
  /\ UNCHANGED <<layoutVars, serverVars, gridVars>>

\* polling-client, poll lines 220-245 followed by handlePollingUpdate: a
\* fetched snapshot whose raw text differs from the last one is parsed,
\* compared with the current topology and published.
handlePollingUpdate ==
  /\ pc = "ready"
  /\ changeCounter < MaxChanges
  /\ \E raw \in PageTexts :
       /\ raw # lastRaw
       /\ lastRaw' = raw
       /\ LET newTopo_ == parseOSPFData(raw)
              cs == IF topology # <<>>
                    THEN diffTopologies(topology[1], newTopo_, now, changeCounter)
                    ELSE <<>>
          IN  /\ changeCounter' = changeCounter + Len(cs)
              /\ IF Len(cs) > 0 THEN PublishAnnotated(newTopo_, cs) ELSE PublishPlain(newTopo_)
  /\ PollRecreated
  /\ UNCHANGED <<inputText, pc, parserVars, diffVars, now, layout, parseError>>
  /\ UNCHANGED <<layoutVars, serverVars, gridVars>>

\* Time passes.
Tick ==
  /\ pc = "ready"
  /\ now + TickMs <= MaxTime
  /\ now' = now + TickMs
  /\ UNCHANGED <<inputText, pc, parserVars, diffVars, changeCounter, pageVars, pollVars>>
  /\ UNCHANGED <<layoutVars, serverVars, gridVars>>

NextPage ==
  \/ AutoLoadSample
  \/ setInputText
  \/ handleParse
  \/ handleLayoutChange
  \/ handleLoadSample
  \/ handleClear
  \/ handlePollingUpdate
  \/ Tick

SpecPage == InitPage /\ [][NextPage]_vars

IsTombstone(x) == x.status = "removed"

Fading(x) == IsTombstone(x) /\ now' < x.statusTimestamp + REMOVED_FADE_DURATION

\* C10: a removed router (link) that a refresh has put into nodes (edges) as
\* a tombstone stays there until REMOVED_FADE_DURATION after its
\* statusTimestamp, whatever the page does in the meantime.
C10_TombstoneKeptUntilFaded ==
  [][/\ \A i \in 1..Len(nodes) :
          Fading(nodes[i]) => \E j \in 1..Len(nodes') : nodes'[j] = nodes[i]
     /\ \A i \in 1..Len(edges) :
          Fading(edges[i]) => \E j \in 1..Len(edges') : edges'[j] = edges[i]]_vars

(***************************************************************************)
(* Change ids: diffTopologies is called again and again in one process, on *)
(* successive snapshots, and the caller keeps every change it was handed.  *)
(***************************************************************************)
MaxIds == 4

IdRouterLists ==
  {<<>>, <<RouterValue(1, 0)>>, <<RouterValue(1, 1)>>, <<RouterValue(2, 0)>>,
   <<RouterValue(1, 0), RouterValue(2, 0)>>}
IdLinkLists == {<<>>, <<LinkValue(1, 2, 10)>>, <<LinkValue(2, 1, 20)>>}

IdTopologies ==
  {[routers |-> rs, networks |-> <<>>, links |-> ls, areas |-> <<0>>] :
     rs \in IdRouterLists, ls \in IdLinkLists}

InitIds ==
  /\ inputText = <<>>
  /\ pc = "calls"
  /\ ParserIdle
  /\ DiffIdle
  /\ PageIdle
  /\ LayoutIdle
  /\ ServerIdle
  /\ GridIdle
  /\ now = StartTime
  /\ changeCounter = 0

\* One more call: the next snapshot is compared with the one before it, at
\* the same millisecond as the call before or later, and the caller appends
\* the changes to its log as the page does (setEvents, page lines 105, 203).
DiffCall ==
  /\ pc = "calls"
  /\ changeCounter < MaxIds
  /\ \E t \in {now, now + TickMs} : t <= MaxTime /\ now' = t
  /\ oldTopo' = newTopo
  /\ \E topo \in IdTopologies : newTopo' = topo
  /\ changes' = diffTopologies(oldTopo', newTopo', now', changeCounter)
  /\ changeCounter' = changeCounter + Len(changes')
  /\ events' = events \o changes'
  /\ UNCHANGED <<inputText, pc, parserVars, oldGraph, annotatedNodes, annotatedEdges,
                 topology, nodes, edges, layout, parseError, lastRaw, pollVars>>
  /\ UNCHANGED <<layoutVars, serverVars, gridVars>>

NextIds == DiffCall

SpecIds == InitIds /\ [][NextIds]_vars

\* The counter component of a change id.
IdCounter(c) == c.id[3]

\* C11: of any two changes emitted in one process the later one has a
\* different id and a greater counter component, within a call and across
\* calls.
C11_IdsUniqueAndOrdered ==
  pc = "calls" =>
    \A i, j \in 1..Len(events) :
      i < j => /\ events[i].id # events[j].id
               /\ IdCounter(events[i]) < IdCounter(events[j])

\* Two calls in the same millisecond have each emitted a change for the same
\* router.
C11_Witness ==
  /\ pc = "calls"
  /\ \E i, j \in 1..Len(events) :
       /\ i < j
       /\ events[i].timestamp = events[j].timestamp
       /\ events[i].type = "router-added" /\ events[j].type = "router-added"
       /\ events[i].routerId = events[j].routerId

(***************************************************************************)
(* The polling client (usePolling) under the page: the start/stop effect,  *)
(* the interval timer, and poll() calls that wait for their response.      *)
(***************************************************************************)
MaxInFlight == 2

MaxTimers == 2

PollIntervals == {5000, 10000}

\* A poll() call that has not got its response yet.
NoResponse == [kind |-> "pending", raw |-> <<>>, timestamp |-> Undefined]

\* The texts posted to the server.
SnapshotTexts == {TextR1, TwoRouterText, TextNoData}

\* api/ospf-poll, GET: { snapshot: null } or the stored snapshot.
GET ==
  IF latestSnapshot = <<>> THEN [kind |-> "none", raw |-> <<>>, timestamp |-> Undefined]
  ELSE [kind |-> "snapshot", raw |-> latestSnapshot[1].raw,
        timestamp |-> latestSnapshot[1].timestamp]

\* What fetch("/api/ospf-poll") can give: a network error or a non-OK
\* status, or the answer of GET.
Responses ==
  {[kind |-> "error", raw |-> <<>>, timestamp |-> Undefined], GET}

\* api/ospf-poll, POST with a non-empty text, some time after the last
\* step: the text is stored with the server's Date.now().
POST ==
  /\ pc = "ready"
  /\ now + TickMs <= MaxTime
  /\ now' = now + TickMs
  /\ \E raw \in SnapshotTexts :
       latestSnapshot' = <<[raw |-> raw, timestamp |-> now']>>
  /\ UNCHANGED <<inputText, pc, parserVars, diffVars, changeCounter, pageVars, pollVars,
                 layoutVars, publishedAt, gridVars>>

\* The poll function of the current render: it calls the handlePollingUpdate
\* of that render, which holds that render's nodes and edges (and its layout,
\* which only the positions depend on).
CurrentPoll == [nodes |-> nodes, edges |-> edges]

\* poll(), lines 202-206: the status is set and the request is sent.
PollStarted(fn) ==
  /\ inFlight' = Append(inFlight, [fn |-> fn, response |-> NoResponse])
  /\ pollingState' = [pollingState EXCEPT !.status = "polling"]

startPolling ==
  /\ pc = "ready"
  /\ pollingState' = [pollingState EXCEPT !.enabled = TRUE, !.status = "polling"]
  /\ effectPending' = (effectPending \/ ~pollingState.enabled)
  /\ UNCHANGED <<inputText, pc, parserVars, diffVars, now, changeCounter, pageVars,
                 intervalRef, timers, inFlight>>
  /\ UNCHANGED <<layoutVars, serverVars, gridVars>>

\* Lines 259-269 without the clearInterval of lines 260-263.
stopPolling_KeepTimer ==
  /\ pc = "ready"
  /\ pollingState' = [pollingState EXCEPT !.enabled = FALSE, !.status = "idle"]
  /\ effectPending' = (effectPending \/ pollingState.enabled)
  /\ UNCHANGED <<inputText, pc, parserVars, diffVars, now, changeCounter, pageVars,
                 intervalRef, timers, inFlight>>
  /\ UNCHANGED <<layoutVars, serverVars, gridVars>>

\* clearInterval(intervalRef.current); intervalRef.current = null, when the
\* ref is set (lines 260-263 and 282-285, 289-292).
Cleared == {t \in timers : intervalRef = <<>> \/ t.id # intervalRef[1]}

\* window.setInterval gives a handle that no timer in use has.
FreeHandle(ts) == CHOOSE h \in 1..MaxTimers : \A t \in ts : t.id # h

stopPolling ==
  /\ pc = "ready"
  /\ timers' = Cleared
  /\ intervalRef' = <<>>
  /\ pollingState' = [pollingState EXCEPT !.enabled = FALSE, !.status = "idle"]
  /\ effectPending' = (effectPending \/ pollingState.enabled)
  /\ UNCHANGED <<inputText, pc, parserVars, diffVars, now, changeCounter, pageVars, inFlight>>
  /\ UNCHANGED <<layoutVars, serverVars, gridVars>>

setInterval_ ==
  /\ pc = "ready"
  /\ \E ms \in PollIntervals :
       /\ pollingState' = [pollingState EXCEPT !.interval = ms]
       /\ effectPending' = (effectPending \/ ms # pollingState.interval)
  /\ UNCHANGED <<inputText, pc, parserVars, diffVars, now, changeCounter, pageVars,
                 intervalRef, timers, inFlight>>
  /\ UNCHANGED <<layoutVars, serverVars, gridVars>>

\* Lines 276-287 without the cleanup of lines 288-293.
PollingEffect_NoCleanup ==
  /\ pc = "ready"
  /\ effectPending
  /\ effectPending' = FALSE
  /\ IF pollingState.enabled
     THEN /\ Len(inFlight) < MaxInFlight
          /\ Cardinality(timers) < MaxTimers
          /\ PollStarted(CurrentPoll)
          /\ timers' = timers \cup {[id |-> FreeHandle(timers), fn |-> CurrentPoll]}
          /\ intervalRef' = <<FreeHandle(timers)>>
     ELSE /\ timers' = Cleared
          /\ intervalRef' = <<>>
          /\ UNCHANGED <<pollingState, inFlight>>
  /\ UNCHANGED <<inputText, pc, parserVars, diffVars, now, changeCounter, pageVars>>
  /\ UNCHANGED <<layoutVars, serverVars, gridVars>>

\* The effect of lines 276-294 runs again: the cleanup of the run before
\* (lines 288-293) clears the timer, then the body polls at once and sets a
\* new timer when polling is enabled.
PollingEffect ==
  /\ pc = "ready"
  /\ effectPending
  /\ effectPending' = FALSE
  /\ IF pollingState.enabled
     THEN /\ Len(inFlight) < MaxInFlight
          /\ Cardinality(Cleared) < MaxTimers
          /\ PollStarted(CurrentPoll)
          /\ timers' = Cleared \cup {[id |-> FreeHandle(Cleared), fn |-> CurrentPoll]}
          /\ intervalRef' = <<FreeHandle(Cleared)>>
     ELSE /\ timers' = Cleared
          /\ intervalRef' = <<>>
          /\ UNCHANGED <<pollingState, inFlight>>
  /\ UNCHANGED <<inputText, pc, parserVars, diffVars, now, changeCounter, pageVars>>
  /\ UNCHANGED <<layoutVars, serverVars, gridVars>>

\* The interval timer fires: setInterval(poll, interval) of line 280 calls
\* the poll it was given.
TimerTick ==
  /\ pc = "ready"
  /\ Len(inFlight) < MaxInFlight
  /\ \E t \in timers : PollStarted(t.fn)
  /\ UNCHANGED <<inputText, pc, parserVars, diffVars, now, changeCounter, pageVars,
                 intervalRef, timers, effectPending>>
  /\ UNCHANGED <<layoutVars, serverVars, gridVars>>

\* The response of one waiting poll arrives.
FetchResponds ==
  /\ pc = "ready"
  /\ \E i \in 1..Len(inFlight), r \in Responses :
       /\ inFlight[i].response = NoResponse
       /\ inFlight' = [inFlight EXCEPT ![i].response = r]
  /\ UNCHANGED <<inputText, pc, parserVars, diffVars, now, changeCounter, pageVars,
                 pollingState, intervalRef, timers, effectPending>>
  /\ UNCHANGED <<layoutVars, serverVars, gridVars>>

RemoveAt(seq, i) == SubSeq(seq, 1, i - 1) \o SubSeq(seq, i + 1, Len(seq))

\* handlePollingUpdate (page lines 96-115) as the poll holds it: the graph
\* is annotated against the nodes and edges of the render it was made in.
OnTopologyUpdate(fn, topo, cs) ==
  /\ IF Len(cs) > 0
     THEN /\ nodes' = applyNodeStatuses(buildGraph(topo).nodes, cs, fn.nodes, now)
          /\ edges' = applyEdgeStatuses(buildGraph(topo).edges, cs, fn.edges, now)
          /\ events' = events \o cs
     ELSE /\ nodes' = buildGraph(topo).nodes
          /\ edges' = buildGraph(topo).edges
          /\ UNCHANGED events
  /\ topology' = <<topo>>

\* poll(), lines 207-252, once the response is there.
PollReturns ==
  /\ pc = "ready"
  /\ changeCounter < MaxChanges
  /\ \E i \in 1..Len(inFlight) :
       LET r == inFlight[i].response
           newTopo_ == parseOSPFData(r.raw)
           cs == IF topology # <<>>
                 THEN diffTopologies(topology[1], newTopo_, now, changeCounter)
                 ELSE <<>>
       IN  /\ r # NoResponse
           /\ inFlight' = RemoveAt(inFlight, i)
           /\ CASE r.kind = "error" ->
                     /\ pollingState' = [pollingState EXCEPT !.status = "error",
                                                             !.errorMessage = TRUE]
                     /\ UNCHANGED <<lastRaw, changeCounter, topology, nodes, edges, events,
                                    effectPending>>
                     /\ UNCHANGED publishedAt
                [] r.kind = "none" ->
                     /\ pollingState' = [pollingState EXCEPT !.status = "connected",
                                                             !.lastUpdated = now]
                     /\ UNCHANGED <<lastRaw, changeCounter, topology, nodes, edges, events,
                                    effectPending, publishedAt>>
                [] r.kind = "snapshot" /\ r.raw = lastRaw ->
                     /\ pollingState' = [pollingState EXCEPT !.status = "connected",
                                                             !.lastUpdated = r.timestamp]
                     /\ UNCHANGED <<lastRaw, changeCounter, topology, nodes, edges, events,
                                    effectPending, publishedAt>>
                [] OTHER ->
                     /\ lastRaw' = r.raw
                     /\ changeCounter' = changeCounter + Len(cs)
                     /\ pollingState' = [pollingState EXCEPT !.status = "connected",
                                                             !.lastUpdated = r.timestamp]
                     /\ OnTopologyUpdate(inFlight[i].fn, newTopo_, cs)
                     /\ publishedAt' = r.timestamp
                     /\ effectPending' = (effectPending \/ pollingState.enabled)
  /\ UNCHANGED <<inputText, pc, parserVars, diffVars, now, layout, parseError, intervalRef, timers>>
  /\ UNCHANGED <<layoutVars, latestSnapshot, gridVars>>

NextPoll ==
  \/ AutoLoadSample
  \/ handleLayoutChange
  \/ startPolling
  \/ stopPolling
  \/ setInterval_
  \/ PollingEffect
  \/ TimerTick
  \/ POST
  \/ FetchResponds
  \/ PollReturns

SpecPoll == InitPage /\ [][NextPoll]_vars

\* C12: while polling is enabled at most one poll is in flight.
C12_OnePollInFlight ==
  pollingState.enabled => Len(inFlight) <= 1
\* A response that makes the poll fail: the fetch failed, or the fetched text
\* is new and parses to a topology with no router and no network.
FailedResponse(r) ==
  \/ r.kind = "error"
  \/ r.kind = "snapshot" /\ r.raw # lastRaw /\ IsEmptyTopology(parseOSPFData(r.raw))

\* C13: a poll that fails, by its fetch or by an empty parsed topology,
\* leaves pollingState with status error and a message, and leaves the
\* interval timer running.
C13_FailedPollReported ==
  [][\A i \in 1..Len(inFlight) :
       (FailedResponse(inFlight[i].response) /\ inFlight' = RemoveAt(inFlight, i)) =>
         /\ pollingState'.status = "error"
         /\ pollingState'.errorMessage
         /\ intervalRef' = intervalRef]_vars

\* C14: from a state in which polling is stopped no step starts a poll, be
\* it the timer or the effect, and the stop itself leaves the polls in
\* flight as they are, to return later.
C14_NoPollAfterStop ==
  [][/\ ~pollingState.enabled => Len(inFlight') <= Len(inFlight)
     /\ (pollingState.enabled /\ ~pollingState'.enabled) => inFlight' = inFlight]_vars

\* Polling is stopped and a poll that was in flight at the stop has since
\* returned and published its snapshot.
C14_Witness ==
  /\ ~pollingState.enabled
  /\ pollingState.status = "connected"
  /\ inFlight = <<>>
  /\ lastRaw # <<>>

(***************************************************************************)
(* Blocks without an id: Router and Network LSAs whose Link State ID line  *)
(* has no dotted value, among blocks that have one.                        *)
(***************************************************************************)
NextDrop ==
  \/ AppendAreaHeader({"Router"}, {1})
  \/ AppendRouterLSA({1, NoId}, {<<>>, <<P2P(2, 10)>>, <<Transit(10, 10)>>, <<Stub(11, 10)>>},
                     {<<FALSE, FALSE>>, <<TRUE, FALSE>>})
  \/ AppendNetworkLSA({10, NoId}, {1}, {<<1, 2>>})
  \/ ParseSteps

SpecDrop == InitParser /\ [][NextDrop]_vars

IsIdless(b) == b.kind \in {"router", "network"} /\ b.id = NoId

\* The entered text without the Router and Network LSA blocks that have no id.
RECURSIVE TextWithoutIdless(_, _)
TextWithoutIdless(bs, i) ==
  IF i > Len(bs) THEN <<>>
  ELSE (IF IsIdless(bs[i]) THEN <<>> ELSE bs[i].lines) \o TextWithoutIdless(bs, i + 1)

\* C15: the Router and Network LSA blocks without a recoverable id add
\* nothing to the result: the text parses to what it parses to without them
\* (no router, network, link, neighbour or network-list entry, placeholder
\* router or area of theirs).
C15_IdlessBlockDropped ==
  pc = "parsed" => result[1] = parseOSPFData(TextWithoutIdless(blocks, 1))

\* The parsed text has a Router LSA without id that lists a neighbour, a
\* Network LSA without id that lists attached routers, and a block with an id.
C15_Witness ==
  /\ pc = "parsed"
  /\ \E i \in 1..Len(blocks) :
       blocks[i].kind = "router" /\ blocks[i].id = NoId /\ blocks[i].links = <<P2P(2, 10)>>
  /\ \E i \in 1..Len(blocks) : blocks[i].kind = "network" /\ blocks[i].id = NoId
  /\ \E i \in 1..Len(blocks) : blocks[i].kind = "router" /\ blocks[i].id = 1
  /\ Len(result[1].routers) = 1

\* C16: when the input text parses to a topology with no router and no
\* network, handleParse sets parseError and leaves topology, nodes, edges
\* and events as they are.
C16_NoDataReported ==
  [][(handleParse /\ IsEmptyTopology(parseOSPFData(inputText))) =>
       /\ parseError'
       /\ UNCHANGED <<topology, nodes, edges, events>>]_vars

\* A text without LSA data has been parsed over a displayed topology.
C16_Witness ==
  /\ parseError
  /\ IsEmptyTopology(parseOSPFData(inputText))
  /\ topology # <<>>
  /\ nodes # <<>>

(***************************************************************************)
(* layout-engine.ts, computeAutoFit: the zoom and pan that fit the nodes    *)
(* into the viewport.  The quotients of the code are kept exact, as         *)
(* fractions <<numerator, denominator>> in lowest terms with a positive     *)
(* denominator; the rounding of the doubles is left out.                    *)
(***************************************************************************)
Abs(x) == IF x < 0 THEN -x ELSE x

RECURSIVE GCD(_, _)
GCD(a, b) == IF b = 0 THEN a ELSE GCD(b, a % b)

Rat(n, d) ==
  LET g == GCD(Abs(n), Abs(d))
      s == IF d < 0 THEN -1 ELSE 1
  IN <<s * (n \div g), Abs(d) \div g>>

RatAdd(a, b) == Rat(a[1] * b[2] + b[1] * a[2], a[2] * b[2])
RatSub(a, b) == Rat(a[1] * b[2] - b[1] * a[2], a[2] * b[2])
RatMul(a, b) == Rat(a[1] * b[1], a[2] * b[2])
RatLess(a, b) == a[1] * b[2] < b[1] * a[2]
RatMin(a, b) == IF RatLess(b, a) THEN b ELSE a
RatMax(a, b) == IF RatLess(a, b) THEN b ELSE a

padding == 80
ZoomCap == Rat(3, 2)
ZoomFloor == Rat(1, 20)
NeutralTransform == [zoom |-> Rat(1, 1), panX |-> Rat(0, 1), panY |-> Rat(0, 1)]

\* The bounding box of a non-empty node list (the loop of lines 90-95).
minX(ns) == CHOOSE v \in {ns[i].x : i \in DOMAIN ns} : \A i \in DOMAIN ns : v <= ns[i].x
maxX(ns) == CHOOSE v \in {ns[i].x : i \in DOMAIN ns} : \A i \in DOMAIN ns : v >= ns[i].x
minY(ns) == CHOOSE v \in {ns[i].y : i \in DOMAIN ns} : \A i \in DOMAIN ns : v <= ns[i].y
maxY(ns) == CHOOSE v \in {ns[i].y : i \in DOMAIN ns} : \A i \in DOMAIN ns : v >= ns[i].y

contentW(ns) == maxX(ns) - minX(ns) + padding * 2
contentH(ns) == maxY(ns) - minY(ns) + padding * 2

\* Math.min(viewportWidth / contentW, viewportHeight / contentH, 1.5)
FitZoom(ns, viewportWidth, viewportHeight) ==
  RatMin(RatMin(Rat(viewportWidth, contentW(ns)), Rat(viewportHeight, contentH(ns))),
         ZoomCap)

centerX(ns) == Rat(minX(ns) + maxX(ns), 2)
centerY(ns) == Rat(minY(ns) + maxY(ns), 2)

computeAutoFit(ns, viewportWidth, viewportHeight) ==
  IF Len(ns) = 0 THEN NeutralTransform
  ELSE IF contentW(ns) <= 0 \/ contentH(ns) <= 0 THEN NeutralTransform
  ELSE LET zoom == FitZoom(ns, viewportWidth, viewportHeight)
       IN [zoom |-> RatMax(ZoomFloor, zoom),
           panX |-> RatSub(Rat(viewportWidth, 2), RatMul(centerX(ns), zoom)),
           panY |-> RatSub(Rat(viewportHeight, 2), RatMul(centerY(ns), zoom))]

\* The node lists and viewports handed to computeAutoFit: no node, one node,
\* several nodes at one point or apart, near each other or far apart, in a
\* large and in a small viewport.
MaxFitNodes == 2

FitPoints == {[x |-> x, y |-> y] : x \in {0, 100, 4000}, y \in {0, 100}}

FitNodeLists == UNION {[1..n -> FitPoints] : n \in 0..MaxFitNodes}

Viewports == {<<900, 600>>, <<100, 100>>}

InitFit ==
  /\ inputText = <<>>
  /\ pc = "fit"
  /\ ParserIdle
  /\ DiffIdle
  /\ PageIdle
  /\ now = StartTime
  /\ changeCounter = 0
  /\ fitNodes \in FitNodeLists
  /\ viewport \in Viewports
  /\ transform = <<>>
  /\ px = <<>>
  /\ resolved = <<>>
  /\ ServerIdle
  /\ GridIdle

\* One call of computeAutoFit.
AutoFit ==
  /\ pc = "fit"
  /\ transform = <<>>
  /\ transform' = computeAutoFit(fitNodes, viewport[1], viewport[2])
  /\ UNCHANGED <<inputText, pc, parserVars, diffVars, now, changeCounter, pageVars,
                 pollVars, fitNodes, viewport, px, resolved, serverVars, gridVars>>

NextFit == AutoFit

SpecFit == InitFit /\ [][NextFit]_vars

\* The degenerate cases of C17: no node, one node, all nodes at one point.
DegenerateFit(ns) ==
  \/ Len(ns) <= 1
  \/ minX(ns) = maxX(ns) /\ minY(ns) = maxY(ns)

\* C17: computeAutoFit returns the neutral transform (zoom 1, panX 0, panY 0)
\* in every degenerate case: an empty node list, a single node at any
\* position, and any node list whose bounding box has zero extent.
C17_DegenerateFitIsNeutral ==
  (transform # <<>> /\ DegenerateFit(fitNodes)) => transform = NeutralTransform

\* Where the returned transform puts the centre of the bounding box.
MappedCenterX == RatAdd(RatMul(centerX(fitNodes), transform.zoom), transform.panX)
MappedCenterY == RatAdd(RatMul(centerY(fitNodes), transform.zoom), transform.panY)

\* C18: for every non-degenerate node set and every viewport size the
\* returned transform maps the centre of the bounding box to the centre of
\* the viewport, centerX * zoom + panX = viewportWidth / 2 and likewise for
\* y, with the returned zoom, and that zoom is the minimum of the two
\* viewport/content ratios and 1.5.
C18_FitCentresBoundingBox ==
  (transform # <<>> /\ ~DegenerateFit(fitNodes)) =>
    /\ transform.zoom = FitZoom(fitNodes, viewport[1], viewport[2])
    /\ MappedCenterX = Rat(viewport[1], 2)
    /\ MappedCenterY = Rat(viewport[2], 2)

(***************************************************************************)
(* layout-engine.ts, forceDirectedLayout: the minimum spacing and the       *)
(* overlap resolution that ends the layout.  The nodes lie on one           *)
(* horizontal line (equal y), where dist is |dx| and the unit vector is 1   *)
(* or -1, so each push is exact.  Positions are counted in 1/Unit of a      *)
(* pixel.  The force loop that runs before resolveOverlaps is not           *)
(* modelled: resolveOverlaps is given placements on the line.               *)
(***************************************************************************)
Unit == 4096

\* n = nodes.length; a square, so that Math.sqrt(n) is a whole number.
LayoutN == 4

Sqrt(n) == CHOOSE r \in 0..n : r * r = n

\* Math.max(100, 600 / Math.sqrt(n))
nodeSpacing(n) == IF 600 \div Sqrt(n) > 100 THEN 600 \div Sqrt(n) ELSE 100

\* nodeSpacing * 0.5, in 1/Unit of a pixel
minDist(n) == (nodeSpacing(n) * Unit) \div 2

margin == 60
OverlapPasses == 8

\* The body of the inner loop for the pair i < j.  A pair at distance 0 is
\* moved by Math.random() in x and in y, which takes the node off the line:
\* the state is marked scattered and followed no further.
ResolvePair(st, i, j, md) ==
  LET dx == st.px[j] - st.px[i]
      dist == Abs(dx)
      overlap == (md - dist) \div 2
      nx == IF dx > 0 THEN 1 ELSE -1
  IN IF dist < md /\ dist > 0
       THEN [st EXCEPT !.px = [st.px EXCEPT ![i] = st.px[i] - nx * overlap,
                                            ![j] = st.px[j] + nx * overlap],
                       !.moved = TRUE,
                       !.exact = st.exact /\ (md - dist) % 2 = 0]
     ELSE IF dist = 0
       THEN [st EXCEPT !.moved = TRUE, !.scattered = TRUE]
     ELSE st

\* One pass: the loops over the pairs i < j, from the pair (i, j) on; indices
\* start at 1.
RECURSIVE PassFrom(_, _, _, _)
PassFrom(st, md, i, j) ==
  IF st.scattered \/ i > Len(st.px) THEN st
  ELSE IF j > Len(st.px) THEN PassFrom(st, md, i + 1, i + 2)
  ELSE PassFrom(ResolvePair(st, i, j, md), md, i, j + 1)

\* The loop over the passes, from pass p on: moved starts FALSE in each pass,
\* and a pass that moved nothing ends the loop.
RECURSIVE PassesFrom(_, _, _, _)
PassesFrom(st, md, passes, p) ==
  IF p >= passes THEN st
  ELSE LET after == PassFrom([st EXCEPT !.moved = FALSE], md, 1, 2)
       IN IF after.scattered \/ ~after.moved THEN after
          ELSE PassesFrom(after, md, passes, p + 1)

resolveOverlaps(pos, md, passes) ==
  PassesFrom([px |-> pos, moved |-> FALSE, scattered |-> FALSE, exact |-> TRUE],
             md, passes, 0)

\* The placements handed to resolveOverlaps: LayoutN nodes on MaxSlots
\* places of the line, a fifth of minDist apart, from the margin on.
MaxSlots == 5

Slots == {margin * Unit + k * (minDist(LayoutN) \div 5) : k \in 0..(MaxSlots - 1)}

Placements == [1..LayoutN -> Slots]

InitLayout ==
  /\ inputText = <<>>
  /\ pc = "layout"
  /\ ParserIdle
  /\ DiffIdle
  /\ PageIdle
  /\ now = StartTime
  /\ changeCounter = 0
  /\ fitNodes = <<>>
  /\ viewport = <<0, 0>>
  /\ transform = <<>>
  /\ px \in Placements
  /\ resolved = <<>>
  /\ ServerIdle
  /\ GridIdle

\* The call resolveOverlaps(px, py, n, minDist, 8) that ends the layout.
ResolveOverlaps ==
  /\ pc = "layout"
  /\ resolved = <<>>
  /\ LET r == resolveOverlaps(px, minDist(LayoutN), OverlapPasses)
     IN /\ px' = r.px
        /\ resolved' = <<[scattered |-> r.scattered, exact |-> r.exact]>>
  /\ UNCHANGED <<inputText, pc, parserVars, diffVars, now, changeCounter, pageVars,
                 pollVars, fitNodes, viewport, transform, serverVars, gridVars>>

NextLayout == ResolveOverlaps

SpecLayout == InitLayout /\ [][NextLayout]_vars

NextInput ==
  /\ pc = "parsed"
  /\ pc' = "edit"
  /\ \E sameText \in BOOLEAN :
       IF sameText THEN UNCHANGED <<blocks, inputText>>
       ELSE blocks' = <<>> /\ inputText' = <<>>
  /\ earlierCall' \in
       IF earlierCall = <<>>
         THEN {<<>>, <<[input |-> inputText, output |-> result[1], others |-> FALSE]>>}
         ELSE {<<[earlierCall[1] EXCEPT
                    !.others = @ \/ inputText # earlierCall[1].input]>>}
  /\ result' = <<>>
  /\ UNCHANGED <<routerLSAs, networkLSAs, parse>>
  /\ UNCHANGED <<diffVars, now, changeCounter, pageVars, pollVars>>
  /\ UNCHANGED <<layoutVars, serverVars, gridVars>>

NextRepeat ==
  \/ AppendRouterLSA({1}, {<<>>}, {<<FALSE, FALSE>>})
  \/ AppendNetworkLSA({10}, {1}, {<<1, 2>>})
  \/ ParseSteps
  \/ NextInput

SpecRepeat == InitParser /\ [][NextRepeat]_vars

\* The same sets of routers, networks, links and areas, each element with
\* identical attributes.
SameTopology(a, b) ==
  /\ Elems(a.routers) = Elems(b.routers)
  /\ Elems(a.networks) = Elems(b.networks)
  /\ Elems(a.links) = Elems(b.links)
  /\ Elems(a.areas) = Elems(b.areas)

\* C20: parseOSPFData is deterministic: two calls on the same text, whatever
\* calls come between them, return topologies with the same sets of
\* routers, networks, links and areas, with identical attributes.
C20_ParseDeterministic ==
  (pc = "parsed" /\ earlierCall # <<>> /\ earlierCall[1].input = inputText) =>
    SameTopology(earlierCall[1].output, result[1])

\* A text with a router, a network and a link has been parsed a second
\* time, after a call on another text had returned in between.
C20_Witness ==
  /\ pc = "parsed"
  /\ earlierCall # <<>>
  /\ earlierCall[1].input = inputText
  /\ earlierCall[1].others
  /\ Len(result[1].routers) > 0
  /\ Len(result[1].networks) > 0
  /\ Len(result[1].links) > 0

(***************************************************************************)
(* Ownership: what diffTopologies, buildGraph and the annotators are       *)
(* handed stays as it was.                                                 *)
(***************************************************************************)

baseWidth == 900

KindLink(kind, src, tgt, cost) ==
  [id |-> <<kind, src, tgt>>, source |-> src, target |-> tgt, cost |-> cost,
   linkType |-> kind, area |-> 0]

PairLinkValues ==
  {KindLink("point-to-point", 1, 2, 10), KindLink("point-to-point", 2, 1, 20),
   KindLink("transit", 1, 2, 10), KindLink("transit", 1, 2, 20)}

PairTopologies ==
  {[routers |-> <<RouterValue(1, 0), RouterValue(2, 0)>>, networks |-> <<>>,
    links |-> ls, areas |-> <<0>>] : ls \in SeqsUpTo(PairLinkValues, MaxLinks)}

InitPairs ==
  /\ inputText = <<>>
  /\ pc = "diff"
  /\ ParserIdle
  /\ PageIdle
  /\ LayoutIdle
  /\ ServerIdle
  /\ GridIdle
  /\ oldTopo \in PairTopologies
  /\ newTopo \in PairTopologies
  /\ changes = <<>>
  /\ oldGraph = [nodes |-> <<>>, edges |-> <<>>]
  /\ annotatedNodes = <<>>
  /\ annotatedEdges = <<>>
  /\ now = StartTime
  /\ changeCounter = 0

NextPairs == Diff

SpecPairs == InitPairs /\ [][NextPairs]_vars

LinkChangeTypes == {"link-added", "link-removed", "metric-changed"}

\* The link changes of cs for the endpoint pair pr.
LinkChangesFor(cs, pr) ==
  {i \in 1..Len(cs) : cs[i].type \in LinkChangeTypes /\ ChangePair(cs[i]) = pr}

\* The cost of the last link of ls for the pair pr, Undefined if it has none.
LastCostFor(ls, pr) ==
  LET I == {i \in 1..Len(ls) : {ls[i].source, ls[i].target} = pr}
  IN IF I = {} THEN Undefined ELSE ls[CHOOSE i \in I : \A j \in I : j <= i].cost

EndpointPairs(ls) == {{ls[i].source, ls[i].target} : i \in 1..Len(ls)}

\* C23: diffTopologies identifies links by unordered endpoint pair only: it
\* emits at most one change among link-added, link-removed and
\* metric-changed for a pair, and the several links a snapshot holds for a
\* pair count as one (the last): there is a change for the pair exactly
\* when the last link of the pair is missing on one side or costs
\* otherwise, whatever else differs among the links of the pair.
C23_LinksIdentifiedByPair ==
  pc = "diffed" =>
    \A pr \in EndpointPairs(oldTopo.links) \cup EndpointPairs(newTopo.links) :
      /\ Cardinality(LinkChangesFor(changes, pr)) <= 1
      /\ (LinkChangesFor(changes, pr) = {}) <=>
           (LastCostFor(oldTopo.links, pr) = LastCostFor(newTopo.links, pr))

\* A difference goes unreported: the old topology has a point-to-point and
\* a transit link for the pair, the new one only the transit link, and the
\* diff has no change.
C23_Witness ==
  /\ pc = "diffed"
  /\ oldTopo.links = <<KindLink("point-to-point", 1, 2, 10), KindLink("transit", 1, 2, 10)>>
  /\ newTopo.links = <<KindLink("transit", 1, 2, 10)>>
  /\ changes = <<>>

(***************************************************************************)
(* page.tsx, handleSimulateChange: the demo button.  Math.random picks one *)
(* of the three branches, the router, the edge and the costs.              *)
(***************************************************************************)
MaxSimEvents == 2

SimRouterIds == {7}
SimCosts == {5}

SimChange(id, type, routerId, linkId, description, oldValue, newValue) ==
  [id |-> id, type |-> type, routerId |-> routerId, linkId |-> linkId,
   description |-> description, oldValue |-> oldValue, newValue |-> newValue,
   timestamp |-> now]

\* Lines 290-346: a new router comes online, linked to an existing one.
SimulateRouterAdded(newId, area, existingRouter, cost) ==
  LET newNode == [id |-> newId, type |-> "router", label |-> newId, role |-> "internal",
                  area |-> area, status |-> "new", statusTimestamp |-> now]
      newEdge == [id |-> <<"link-sim", now>>, source |-> newId,
                  target |-> existingRouter.routerId, cost |-> cost,
                  linkType |-> "point-to-point", area |-> area,
                  status |-> "new", statusTimestamp |-> now, oldCost |-> Undefined]
      cs == <<SimChange(<<"sim", now>>, "router-added", newId, NoLink,
                        <<W("Router"), N(newId), W("came"), W("online"), W("(Area"), N(area)>>,
                        Undefined, Undefined),
              SimChange(<<"sim-link", now>>, "link-added", NoId, newEdge.id,
                        <<W("Link"), N(newId), W("<->"), N(existingRouter.routerId),
                          W("established"), W("(cost:"), N(cost)>>,
                        Undefined, Undefined)>>
  IN /\ nodes' = Append(nodes, newNode)
     /\ edges' = Append(edges, newEdge)
     /\ events' = events \o cs

\* Lines 347-378: a router goes offline.
SimulateRouterRemoved(routerToRemove) ==
  /\ nodes' = [i \in 1..Len(nodes) |->
                IF nodes[i].id = routerToRemove.routerId
                THEN [nodes[i] EXCEPT !.status = "removed", !.statusTimestamp = now]
                ELSE nodes[i]]
  /\ edges' = [i \in 1..Len(edges) |->
                IF edges[i].source = routerToRemove.routerId
                   \/ edges[i].target = routerToRemove.routerId
                THEN [edges[i] EXCEPT !.status = "removed", !.statusTimestamp = now]
                ELSE edges[i]]
  /\ events' = events \o
       <<SimChange(<<"sim", now>>, "router-removed", routerToRemove.routerId, NoLink,
                   <<W("Router"), N(routerToRemove.routerId), W("went"), W("offline")>>,
                   Undefined, Undefined)>>

\* Lines 379-413: the cost of an edge changes.
SimulateMetricChanged(edgeToChange, newCost) ==
  /\ nodes' = nodes
  /\ edges' = [i \in 1..Len(edges) |->
                IF edges[i].id = edgeToChange.id
                THEN [edges[i] EXCEPT !.cost = newCost, !.oldCost = edgeToChange.cost,
                                      !.status = "changed", !.statusTimestamp = now]
                ELSE edges[i]]
  /\ events' = events \o
       <<SimChange(<<"sim", now>>, "metric-changed", NoId, edgeToChange.id,
                   <<W("Link"), N(edgeToChange.source), W("<->"), N(edgeToChange.target),
                     W("cost"), W("changed:"), N(edgeToChange.cost), W("->"), N(newCost)>>,
                   edgeToChange.cost, newCost)>>

handleSimulateChange ==
  /\ pc = "ready"
  /\ Len(events) < MaxSimEvents
  /\ topology # <<>>
  /\ Len(topology[1].routers) > 0
  /\ \/ \E newId \in SimRouterIds, cost \in SimCosts,
            a \in 1..Len(topology[1].areas), r \in 1..Len(topology[1].routers) :
          SimulateRouterAdded(newId, topology[1].areas[a], topology[1].routers[r], cost)
     \/ \E r \in 1..Len(topology[1].routers) :
          SimulateRouterRemoved(topology[1].routers[r])
     \/ \E e \in 1..Len(edges), newCost \in SimCosts :
          SimulateMetricChanged(edges[e], newCost)
  /\ PollRecreated
  /\ UNCHANGED <<inputText, pc, parserVars, diffVars, now, changeCounter,
                 topology, layout, parseError, lastRaw>>
  /\ UNCHANGED <<layoutVars, serverVars, gridVars>>

NextSim ==
  \/ AutoLoadSample
  \/ handleLayoutChange
  \/ handlePollingUpdate
  \/ handleSimulateChange

SpecSim == InitPage /\ [][NextSim]_vars

\* The events a step appends.
AppendedEvents ==
  IF Len(events') >= Len(events) THEN SubSeq(events', Len(events) + 1, Len(events'))
  ELSE <<>>

\* What the annotators make of the graph of the topology after the step,
\* the appended events and the nodes and edges before the step.
AnnotatedNow ==
  IF topology' = <<>> THEN [nodes |-> <<>>, edges |-> <<>>]
  ELSE [nodes |-> applyNodeStatuses(buildGraph(topology'[1]).nodes, AppendedEvents, nodes, now),
        edges |-> applyEdgeStatuses(buildGraph(topology'[1]).edges, AppendedEvents, edges, now)]

\* x carries no status (as buildGraph makes it), was there before the step
\* just as it is, or is an element of what the annotator returns.
StatusFrom(x, before, annotated) ==
  \/ x.status = "none"
  \/ x \in Elems(before)
  \/ x \in Elems(annotated)

\* C24: in the page's nodes and edges the status, statusTimestamp and
\* oldCost of an element change only through applyNodeStatuses and
\* applyEdgeStatuses, or by the element being rebuilt without status; no
\* other operation sets a status.
C24_StatusOnlyFromAnnotator ==
  [][/\ \A i \in 1..Len(nodes') : StatusFrom(nodes'[i], nodes, AnnotatedNow.nodes)
     /\ \A i \in 1..Len(edges') : StatusFrom(edges'[i], edges, AnnotatedNow.edges)]_vars

(***************************************************************************)
(* Link endpoints of a parsed topology.                                    *)
(***************************************************************************)
\* The ids of the routers and of the networks of a topology.
ElementIds(topo) ==
  {topo.routers[i].id : i \in 1..Len(topo.routers)}
    \cup {topo.networks[i].id : i \in 1..Len(topo.networks)}

\* The links of a topology with an endpoint that is no router and no
\* network of it.
DanglingLinks(topo) ==
  {i \in 1..Len(topo.links) :
     \/ topo.links[i].source \notin ElementIds(topo)
     \/ topo.links[i].target \notin ElementIds(topo)}

\* C25: in every topology parseOSPFData returns, both endpoints of every
\* link are ids of a router or a network of that topology, also for a
\* point-to-point link to a neighbour that has no Router LSA in the text.
C25_NoDanglingLink ==
  pc = "parsed" => DanglingLinks(result[1]) = {}

\* C27: whenever polling is disabled the status is idle: after stopPolling
\* the status does not become polling, connected or error before
\* startPolling is called, even when a poll was in flight at the stop.
C27_DisabledIsIdle ==
  ~pollingState.enabled => pollingState.status = "idle"

(***************************************************************************)
(* Polling against the server while the user may clear the page: the       *)
(* snapshots are posted, fetched by the polls and published as the         *)
(* responses come in.                                                      *)
(***************************************************************************)
NextSnap ==
  \/ AutoLoadSample
  \/ handleClear
  \/ startPolling
  \/ PollingEffect
  \/ TimerTick
  \/ POST
  \/ FetchResponds
  \/ PollReturns

SpecSnap == InitPage /\ [][NextSnap]_vars

\* The step hands the topology of a snapshot to onTopologyUpdate.
Publishes == \E i \in 1..Len(inFlight) :
  /\ inFlight' = RemoveAt(inFlight, i)
  /\ inFlight[i].response.kind = "snapshot"
  /\ lastRaw' = inFlight[i].response.raw
  /\ lastRaw' # lastRaw

PublishedInOrder ==
  (Publishes /\ publishedAt # Undefined) => publishedAt' >= publishedAt

\* lastUpdated shows the timestamp of the published snapshot and a poll
\* returns with a snapshot.
LastUpdatedInOrder ==
  (/\ publishedAt # Undefined
   /\ pollingState.lastUpdated = publishedAt
   /\ \E i \in 1..Len(inFlight) :
        inFlight' = RemoveAt(inFlight, i) /\ inFlight[i].response.kind = "snapshot")
  => pollingState'.lastUpdated >= pollingState.lastUpdated

\* C26: under any interleaving of polls and their responses, after the
\* topology of the snapshot with timestamp t has been published no topology
\* of a snapshot with an older timestamp is published, and
\* pollingState.lastUpdated never moves back.
C26_NoOlderSnapshot ==
  [][PublishedInOrder /\ LastUpdatedInOrder]_vars

(***************************************************************************)
(* Progress of the polling client: the effect runs after the render that   *)
(* made it due, the interval timer keeps firing while it is set, every     *)
(* fetch is answered, and poll goes on after its await.                    *)
(***************************************************************************)
\* PollReturns can be taken: a response has arrived and waits.
PollReturnsEnabled ==
  /\ pc = "ready"
  /\ changeCounter < MaxChanges
  /\ \E i \in 1..Len(inFlight) : inFlight[i].response # NoResponse

\* The last conjunct is WF_vars(PollReturns) with its enabling condition
\* written out.
SpecLive ==
  /\ InitPage
  /\ [][NextSnap]_vars
  /\ WF_vars(PollingEffect)
  /\ WF_vars(TimerTick)
  /\ WF_vars(FetchResponds)
  /\ ([]<>~PollReturnsEnabled \/ []<><<PollReturns>>_vars)

\* Polling is enabled, the server holds the text S, no fetch has failed, and
\* the change counter has room for the changes of another publication.
ServerKeeps(S) ==
  /\ pollingState.enabled
  /\ latestSnapshot # <<>>
  /\ latestSnapshot[1].raw = S
  /\ \A i \in 1..Len(inFlight) : inFlight[i].response.kind # "error"
  /\ changeCounter < MaxChanges

Shows(S) == topology = <<parseOSPFData(S)>>

\* C28: if polling stays enabled, the fetches succeed and the server keeps
\* returning one unchanged non-empty snapshot S, then the page comes to
\* show the topology parsed from S, whatever the user did before or in
\* between; the check that skips an unchanged text never holds S back while
\* another topology is displayed.  The formula asks for it only once the
\* user has stopped clearing the page.
C28_SnapshotEventuallyShown ==
  \A S \in {TextR1, TwoRouterText} :
    (<>[]ServerKeeps(S) /\ <>[][~handleClear]_vars) => []<>Shows(S)

(***************************************************************************)
(* The interval timers of the polling client, up to the unmount of the     *)
(* page.                                                                   *)
(***************************************************************************)
\* The component unmounts: the cleanup of the effect runs (lines 288-293).
Unmount ==
  /\ pc = "ready"
  /\ pc' = "unmounted"
  /\ timers' = Cleared
  /\ intervalRef' = <<>>
  /\ UNCHANGED <<inputText, parserVars, diffVars, now, changeCounter, pageVars,
                 pollingState, effectPending, inFlight>>
  /\ UNCHANGED <<layoutVars, serverVars, gridVars>>

NextTimer ==
  \/ AutoLoadSample
  \/ handleLayoutChange
  \/ startPolling
  \/ stopPolling
  \/ setInterval_
  \/ PollingEffect
  \/ TimerTick
  \/ POST
  \/ FetchResponds
  \/ PollReturns
  \/ Unmount

SpecTimer == InitPage /\ [][NextTimer]_vars

\* C29: after any sequence of startPolling, stopPolling, interval changes,
\* topology updates and unmount at most one interval timer is active, a
\* timer is active only while polling is enabled and the page is mounted,
\* and the active timer is the one intervalRef holds: each run of the
\* effect has cleared the timer of the run before.
C29_OneTimerWhileEnabled ==
  /\ Cardinality(timers) <= 1
  /\ timers # {} => (pollingState.enabled /\ pc = "ready")
  /\ \A t \in timers : intervalRef = <<t.id>>

\* The effect has run again after a poll published a snapshot: the timer
\* set by the earlier run is cleared and the new one is the only one.
C29_Witness ==
  /\ pollingState.enabled
  /\ pollingState.interval = 5000
  /\ lastRaw # <<>>
  /\ ~effectPending
  /\ Cardinality(timers) = 1
  /\ \E t \in timers : t.fn = CurrentPoll

(***************************************************************************)
(* forceDirectedLayout, the repulsion of one iteration in grid mode        *)
(* (n > 80) and in exact mode.  The graph has GridN nodes; the model       *)
(* follows a few of them, at whole pixels, through the loop: whether and   *)
(* how a pair of nodes receives the force does not depend on the other     *)
(* nodes.                                                                  *)
(***************************************************************************)
GridN == 81

\* Line 175.
repulsion == IF GridN * 250 > 12000 THEN GridN * 250 ELSE 12000

\* Line 185: nodeSpacing * 2, in pixels.
gridCellSize == nodeSpacing(GridN) * 2

\* Line 177: nodeSpacing * 0.5, in pixels.
gridMinDist == nodeSpacing(GridN) \div 2

\* Lines 198-199 and 206-207: Math.floor(px[i] / gridCellSize) and the same
\* for py.
CellOf(ns, i) == <<ns[i].x \div gridCellSize, ns[i].y \div gridCellSize>>

\* Lines 196-203: cellMap.get(key), the indices of the nodes of a cell in
\* the order they were pushed; <<>> for a cell with no entry.
Cell(ns, key) == SelectSeq([i \in 1..Len(ns) |-> i], LAMBDA i : CellOf(ns, i) = key)

\* Lines 217-233 in grid mode: dx, dy, distSq, and the force, which is
\* tripled below minDist and damped within an area.  fx and fy follow from
\* these and the temperature of the iteration.
GridForce(ns, i, j) ==
  LET dx == ns[i].x - ns[j].x
      dy == ns[i].y - ns[j].y
      distSq == dx * dx + dy * dy
      force == IF distSq < gridMinDist * gridMinDist
               THEN Rat(repulsion * 3, distSq + 1)
               ELSE Rat(repulsion, distSq + 1)
  IN [i |-> i, j |-> j, dx |-> dx, dy |-> dy, distSq |-> distSq,
      force |-> IF ns[i].area = ns[j].area THEN RatMul(force, Rat(6, 10)) ELSE force]

\* Lines 243-259 in exact mode.
ExactForce(ns, i, j) ==
  LET dx == ns[i].x - ns[j].x
      dy == ns[i].y - ns[j].y
      distSq == dx * dx + dy * dy
      force == IF distSq < gridMinDist * gridMinDist
               THEN Rat(repulsion * 3, distSq + 1)
               ELSE Rat(repulsion, distSq + 1)
  IN [i |-> i, j |-> j, dx |-> dx, dy |-> dy, distSq |-> distSq,
      force |-> IF ns[i].area = ns[j].area THEN RatMul(force, Rat(6, 10)) ELSE force]

\* Lines 215-216 without the skip of j <= i: only the node itself is left out.
CellForces_BothOrders(ns, i, cell) ==
  LET js == SelectSeq(cell, LAMBDA j : j # i)
  IN [k \in 1..Len(js) |-> GridForce(ns, i, js[k])]

\* Lines 215-234: the nodes j of one cell, those with j <= i skipped.
CellForces(ns, i, cell) ==
  LET js == SelectSeq(cell, LAMBDA j : ~(j <= i))
  IN [k \in 1..Len(js) |-> GridForce(ns, i, js[k])]

\* Lines 209-236: the 25 cells around the cell of node i, dcx and dcy from
\* -2 to 2; k counts the cells done.
RECURSIVE NeighbourhoodForces(_, _, _)
NeighbourhoodForces(ns, i, k) ==
  IF k = 25 THEN <<>>
  ELSE LET dcx == (k \div 5) - 2
           dcy == (k % 5) - 2
           key == <<CellOf(ns, i)[1] + dcx, CellOf(ns, i)[2] + dcy>>
       IN CellForces(ns, i, Cell(ns, key)) \o NeighbourhoodForces(ns, i, k + 1)

\* Lines 241-261: every pair i < j, in the order of the two loops.
RECURSIVE ExactForces(_, _, _)
ExactForces(ns, i, j) ==
  IF i > Len(ns) THEN <<>>
  ELSE IF j > Len(ns) THEN ExactForces(ns, i + 1, i + 2)
  ELSE <<ExactForce(ns, i, j)>> \o ExactForces(ns, i, j + 1)

MaxGridNodes == 3

GridXs == {0, 180, 200, 450, 650}
GridYs == {0, 600}

\* Node 1 and node 2 are in one area, the others in another.
GridPlacements ==
  {ns \in [1..MaxGridNodes -> [x : GridXs, y : GridYs, area : {0, 1}]] :
     \A i \in 1..MaxGridNodes : ns[i].area = (IF i <= 2 THEN 0 ELSE 1)}

InitGrid ==
  /\ inputText = <<>>
  /\ pc = "grid"
  /\ ParserIdle
  /\ DiffIdle
  /\ PageIdle
  /\ LayoutIdle
  /\ ServerIdle
  /\ now = StartTime
  /\ changeCounter = 0
  /\ gridNodes \in GridPlacements
  /\ gridI = 1
  /\ forces = <<>>

\* Lines 205-237: one round of the loop over i.
GridRepulsion ==
  /\ pc = "grid"
  /\ gridI <= Len(gridNodes)
  /\ forces' = forces \o NeighbourhoodForces(gridNodes, gridI, 0)
  /\ gridI' = gridI + 1
  /\ UNCHANGED <<inputText, pc, parserVars, diffVars, now, changeCounter, pageVars,
                 pollVars, layoutVars, serverVars, gridNodes>>

NextGrid == GridRepulsion

SpecGrid == InitGrid /\ [][NextGrid]_vars

\* The cell indices of nodes i and j differ by at most 2 in both axes.
Near(ns, i, j) ==
  /\ Abs(CellOf(ns, i)[1] - CellOf(ns, j)[1]) <= 2
  /\ Abs(CellOf(ns, i)[2] - CellOf(ns, j)[2]) <= 2

\* How often the unordered pair of i and j has received the force.
TimesForced(i, j) ==
  Cardinality({k \in 1..Len(forces) : {forces[k].i, forces[k].j} = {i, j}})

LoopDone == pc = "grid" /\ gridI = Len(gridNodes) + 1

\* C30: after the repulsion loop of one iteration in grid mode every
\* unordered pair of nodes whose cell indices differ by at most 2 in both
\* axes, hence every pair closer than minDist, has received the force
\* exactly once, no pair has received it twice, and the forces added are
\* those the exact mode adds for the same pairs.
C30_GridAppliesNearPairsOnce ==
  LoopDone =>
    /\ \A i, j \in 1..Len(gridNodes) :
         i < j => /\ TimesForced(i, j) = (IF Near(gridNodes, i, j) THEN 1 ELSE 0)
                  /\ ExactForce(gridNodes, i, j).distSq < gridMinDist * gridMinDist
                       => TimesForced(i, j) = 1
    /\ Elems(forces) =
         {f \in Elems(ExactForces(gridNodes, 1, 2)) : Near(gridNodes, f.i, f.j)}

\* The loop is done: a pair closer than minDist in neighbouring cells and a
\* pair three cells apart, which got no force.
C30_Witness ==
  /\ LoopDone
  /\ \E i, j \in 1..Len(gridNodes) :
       /\ i < j
       /\ CellOf(gridNodes, i) # CellOf(gridNodes, j)
       /\ ExactForce(gridNodes, i, j).distSq < gridMinDist * gridMinDist
       /\ TimesForced(i, j) = 1
  /\ \E i, j \in 1..Len(gridNodes) :
       /\ i < j
       /\ ~Near(gridNodes, i, j)
       /\ TimesForced(i, j) = 0

====
